---------------------------- MODULE Spec2Model ----------------------------
(***************************************************************************)
(* Model of the KIE / Veo proxy backends of Tahiti18/veo-backend.          *)
(*                                                                         *)
(* The repository holds several iterations of one small Express server.    *)
(* The parts modelled here are                                             *)
(*   - the bounded job queue  (enqueue / pump),                            *)
(*   - the request sanitizer  (clamp / sanitize),                          *)
(*   - endpoint discovery     (detectPaths, DETECT, GET /triage),          *)
(*   - the generation handler (generateHandler / handleGenerate),          *)
(*   - the polling loops      (pollTask, pollUntilDone, pollAny, and the   *)
(*                             inline loop of generateHandler),            *)
(*   - the concurrency setting (MAX computed from CONCURRENCY),            *)
(*   - the smart proxy        (tryPostPaths / tryGetPaths of server.cjs),  *)
(*   - the fal.run submission (callFal),                                   *)
(*   - the router of the unified-generate variant (rate cap middleware,    *)
(*                             POST /generate, legacy routes).             *)
(*                                                                         *)
(* JavaScript runs every handler to completion between two suspension      *)
(* points (an upstream HTTP call, a timer, a setImmediate callback), so an *)
(* action of the model is one such run: it starts when the awaited event   *)
(* arrives and ends at the next await of an external event.                *)
(***************************************************************************)
EXTENDS Integers, Sequences, FiniteSets, TLC

(***************************************************************************)
(* Bounds of the model.                                                    *)
(***************************************************************************)
MaxMAX == 2        \* largest configured concurrency explored
MaxOps == 4        \* operations enqueued in the stand-alone queue model
MaxPumps == 2      \* setImmediate(pump) callbacks pending at one time
NumStatus == 2     \* length of STATUS_CANDIDATES (KIE_STATUS_PATHS overrides it)
NumSubmit == 3     \* length of SUBMIT_CANDIDATES (KIE_SUBMIT_PATHS overrides it)
NumProcs == 2      \* handler invocations in progress at one time
MaxRounds == 1     \* poll rounds of a request in the concurrent models
MaxFields == 3     \* shapes present together in one provider response
Step == 30000      \* milliseconds between two readings of the clock
MaxClock == 60000  \* last reading of the clock explored
MaxStamps == 32    \* arrival times held for one key when a request arrives
MaxOther == 1      \* requests that carry a header or come from the second client

Null == "null"

VARIABLES
  MAX,        \* configured concurrency (const MAX)
  active,     \* let active = 0
  queue,      \* const queue = []   (FIFO of waiting operations)
  running,    \* operations whose run() has been called and not yet settled
  pumps,      \* pump calls scheduled by setImmediate and not yet run
  opState,    \* stand-alone queue model: life cycle of each operation
  nextOp,     \* stand-alone queue model: number of enqueue calls so far
  sanCall,    \* sanitizer model: the last call of sanitize and its outcome
  poll,       \* polling model: one job inside one of the polling loops
  KEY,        \* const KEY = process.env.KIE_KEY  (TRUE when set)
  DETECT,     \* let DETECT = { submit_path, status_path, last_err }
  proc,       \* the handler invocations in progress (generateHandler, /triage)
  everBound,  \* history: a discovery has bound a submit path since the last reset
  req,        \* single-request model: one generation request from body to response
  CONCURRENCY,\* process.env.CONCURRENCY, the setting MAX is computed from
  proxy,      \* smart proxy: one client request inside tryPostPaths / tryGetPaths
  fal,        \* one call of callFal
  BUCKET,     \* const BUCKET = new Map()   (ip -> arrival times inside the window)
  clock,      \* Date.now(), in units of a quarter of the window
  hop         \* unified-generate variant: one client request inside the router

qvars == <<MAX, active, queue, running, pumps>>
opvars == <<opState, nextOp, req>>
sanvars == <<sanCall>>
pollvars == <<poll>>
genvars == <<KEY, DETECT, proc, everBound>>
edgevars == <<CONCURRENCY, proxy, fal, BUCKET, clock, hop>>

vars == <<MAX, active, queue, running, pumps, opState, nextOp, sanCall, poll,
          KEY, DETECT, proc, everBound, req, CONCURRENCY, proxy, fal, BUCKET, clock, hop>>

(***************************************************************************)
(* The queue.  A queue state is the record of the four mutable parts.      *)
(***************************************************************************)
QState == [active |-> active, queue |-> queue, running |-> running, pumps |-> pumps]

SetQ(s) ==
  /\ active' = s.active
  /\ queue' = s.queue
  /\ running' = s.running
  /\ pumps' = s.pumps

\* pump without the admission test on active (mutation of pump)
pump_NoBound(s) ==
  IF Len(s.queue) = 0
    THEN s
    ELSE [s EXCEPT !.active = s.active + 1,
                   !.queue = Tail(s.queue),
                   !.running = s.running \cup {Head(s.queue)}]

\* pump with the admission test off by one: active > MAX (mutation of pump)
pump_OffByOne(s) ==
  IF s.active > MAX \/ Len(s.queue) = 0
    THEN s
    ELSE [s EXCEPT !.active = s.active + 1,
                   !.queue = Tail(s.queue),
                   !.running = s.running \cup {Head(s.queue)}]

\* async function pump(){ if(active>=MAX || !queue.length) return;
\*   active++; const j=queue.shift(); ... await j.run() ...
pump(s) ==
  IF s.active >= MAX \/ Len(s.queue) = 0
    THEN s
    ELSE [s EXCEPT !.active = s.active + 1,
                   !.queue = Tail(s.queue),
                   !.running = s.running \cup {Head(s.queue)}]

\* enqueue with queue.unshift in place of queue.push (mutation of enqueue)
enqueue_Unshift(s, op) == pump([s EXCEPT !.queue = <<op>> \o s.queue])

\* function enqueue(run){ ... queue.push({run,resolve,reject}); pump(); }
enqueue(s, op) == pump([s EXCEPT !.queue = Append(s.queue, op)])

\* finally{ active--; } without setImmediate(pump) (mutation of release)
release_NoPump(s, op) ==
  [s EXCEPT !.active = s.active - 1,
            !.running = s.running \ {op}]

\* ... finally{ active--; setImmediate(pump); }
release(s, op) ==
  [s EXCEPT !.active = s.active - 1,
            !.running = s.running \ {op},
            !.pumps = s.pumps + 1]

\* the setImmediate callback: one scheduled pump() runs
tick(s) == pump([s EXCEPT !.pumps = s.pumps - 1])

(***************************************************************************)
(* JavaScript values, as far as the sanitizer needs them.  Numbers are     *)
(* held in hundredths (800 is 8, 755 is 7.55) so that rounding to one      *)
(* decimal is visible.                                                     *)
(***************************************************************************)
JV(t, n, s) == [t |-> t, n |-> n, s |-> s]
Undefined == JV("undefined", 0, "")
JNull == JV("null", 0, "")
NaN == JV("nan", 0, "")
Inf(sign) == JV("inf", sign, "")
Num(v) == JV("num", v, "")
Str(s) == JV("str", 0, s)
Bool(b) == JV("bool", IF b THEN 1 ELSE 0, "")
Obj == JV("object", 0, "")

\* JavaScript truthiness (the operand tests of || and !)
Truthy(x) ==
  CASE x.t \in {"undefined", "null", "nan"} -> FALSE
    [] x.t \in {"num", "bool"} -> x.n # 0
    [] x.t = "str" -> x.s # ""
    [] OTHER -> TRUE

Digit(d) ==
  CASE d = 0 -> "0" [] d = 1 -> "1" [] d = 2 -> "2" [] d = 3 -> "3" [] d = 4 -> "4"
    [] d = 5 -> "5" [] d = 6 -> "6" [] d = 7 -> "7" [] d = 8 -> "8" [] OTHER -> "9"

RECURSIVE NatStr(_)
NatStr(n) == IF n < 10 THEN Digit(n) ELSE NatStr(n \div 10) \o Digit(n % 10)

\* String(n) of a number held in hundredths
NumStr(v) ==
  LET a == IF v < 0 THEN 0 - v ELSE v
      ip == NatStr(a \div 100)
      fr == a % 100
      body == IF fr = 0 THEN ip
              ELSE IF fr % 10 = 0 THEN ip \o "." \o Digit(fr \div 10)
              ELSE ip \o "." \o Digit(fr \div 10) \o Digit(fr % 10)
  IN  IF v < 0 THEN "-" \o body ELSE body

\* String(x)
ToStr(x) ==
  CASE x.t = "undefined" -> "undefined"
    [] x.t = "null" -> "null"
    [] x.t = "nan" -> "NaN"
    [] x.t = "inf" -> IF x.n > 0 THEN "Infinity" ELSE "-Infinity"
    [] x.t = "num" -> NumStr(x.n)
    [] x.t = "bool" -> IF x.n = 1 THEN "true" ELSE "false"
    [] x.t = "str" -> x.s
    [] OTHER -> "[object Object]"

\* String.prototype.trim on the strings of the model
Trim(s) ==
  CASE s \in {"", " ", "   "} -> ""
    [] s = " a cat " -> "a cat"
    [] s = " 5 " -> "5"
    [] OTHER -> s

\* the numbers whose decimal notation the model can read back
ParseNums == {-500, 0, 4, 5, 50, 100, 150, 200, 314, 315, 500, 755, 800, 804, 805, 2000}

\* Number(s) of a string: white space is 0, a decimal numeral is its value,
\* anything else is NaN
StrToNumber(s) ==
  LET t == Trim(s)
  IN  IF t = "" THEN Num(0)
      ELSE IF t = "Infinity" THEN Inf(1)
      ELSE IF \E v \in ParseNums : NumStr(v) = t
        THEN Num(CHOOSE v \in ParseNums : NumStr(v) = t)
      ELSE NaN

\* Number(x)
ToNumber(x) ==
  CASE x.t = "undefined" -> NaN
    [] x.t = "null" -> Num(0)
    [] x.t \in {"num", "nan", "inf"} -> x
    [] x.t = "bool" -> Num(100 * x.n)
    [] x.t = "str" -> StrToNumber(x.s)
    [] OTHER -> NaN

\* Math.round(x*10)/10 : halves round towards +Infinity
RoundTenth(x) ==
  IF x.t = "num" THEN Num(((x.n + 5) \div 10) * 10) ELSE x

\* Math.min(c, x) and Math.max(c, x) for a finite c: NaN is contagious
MathMin(c, x) ==
  CASE x.t = "nan" -> NaN
    [] x.t = "inf" -> IF x.n > 0 THEN Num(c) ELSE x
    [] OTHER -> IF x.n < c THEN x ELSE Num(c)

MathMax(c, x) ==
  CASE x.t = "nan" -> NaN
    [] x.t = "inf" -> IF x.n > 0 THEN x ELSE Num(c)
    [] OTHER -> IF x.n > c THEN x ELSE Num(c)

\* Number.isFinite(x)
IsFinite(x) == x.t = "num"

RATIOS == {"16:9", "9:16", "1:1", "4:3", "3:4"}

\* const clamp = s => Math.max(1, Math.min(8, Math.round(Number(s||8)*10)/10));
\* (config.js, part_001; clamp8 of part_002 is the same expression)
clamp(s) ==
  MathMax(100, MathMin(800, RoundTenth(ToNumber(IF Truthy(s) THEN s ELSE Num(800)))))

\* const clamp = d => { const n = Number(d); if (!Number.isFinite(n)) return 8;
\*   return Math.max(1, Math.min(8, Math.round(n * 10) / 10)); };   (server.js)
clampFinite(d) ==
  LET n == ToNumber(d)
  IN  IF ~IsFinite(n) THEN Num(800) ELSE MathMax(100, MathMin(800, RoundTenth(n)))

\* x ?? y
Coalesce(x, y) == IF x.t \in {"undefined", "null"} THEN y ELSE x

\* if(!prompt || !String(prompt).trim()) throw (status 400)
\* the test of the prompt without the trim (mutation of PromptBlank)
PromptBlank_NoTrim(prompt) == ~Truthy(prompt)

PromptBlank(prompt) == ~Truthy(prompt) \/ Trim(ToStr(prompt)) = ""

Threw(st) == [threw |-> TRUE, status |-> st, prompt |-> "", duration |-> NaN, aspect_ratio |-> ""]
Returned(p, d, a) == [threw |-> FALSE, status |-> 0, prompt |-> p, duration |-> d, aspect_ratio |-> a]

AspectOr(aspect_ratio, dflt) ==
  IF ToStr(aspect_ratio) \in RATIOS THEN ToStr(aspect_ratio) ELSE dflt

\* function sanitize(b={}) of config.js and part_001
sanitize(b) ==
  IF PromptBlank(b.prompt) THEN Threw(400)
  ELSE Returned(ToStr(b.prompt), clamp(b.duration), AspectOr(b.aspect_ratio, "9:16"))

\* function sanitize(body = {}) of the KIE-only server in server.js
sanitizeFinite(b) ==
  IF PromptBlank(b.prompt) THEN Threw(400)
  ELSE Returned(ToStr(b.prompt), clampFinite(Coalesce(b.duration, Num(800))),
                AspectOr(b.aspect_ratio, "9:16"))

\* function toCamel(body={}) of part_002 (aspectRatio, duration: clamp8(duration))
toCamel(b) ==
  IF PromptBlank(b.prompt) THEN Threw(400)
  ELSE Returned(ToStr(b.prompt), clamp(b.duration), AspectOr(b.aspect_ratio, "16:9"))

SanVariants == {"sanitize", "sanitizeFinite", "toCamel"}

ApplySanitize(variant, b) ==
  CASE variant = "sanitize" -> sanitize(b)
    [] variant = "sanitizeFinite" -> sanitizeFinite(b)
    [] OTHER -> toCamel(b)

(***************************************************************************)
(* Status documents of the upstream and the polling loops.                 *)
(*                                                                         *)
(* A response is either a transport error (axios throws: network failure,  *)
(* non-2xx, request timeout) or a JSON document.  The KIE pollers read     *)
(* status / output.video_url / error, the Veo3 poller reads code / data /  *)
(* data.successFlag / data.resultUrls.                                     *)
(***************************************************************************)
URL == "https://x/video.mp4"

Doc(err, status, video_url, error, code, hasData, successFlag, resultUrls) ==
  [err |-> err, status |-> status, video_url |-> video_url, error |-> error,
   code |-> code, hasData |-> hasData, successFlag |-> successFlag,
   resultUrls |-> resultUrls]

TransportError == Doc(TRUE, Null, Null, Null, 0, FALSE, 0, Null)

KieDocs ==
  {Doc(FALSE, st, u, e, 0, FALSE, 0, Null) :
     st \in {"pending", "succeeded", "failed"}, u \in {Null, URL}, e \in {Null, "nsfw"}}

Veo3Docs ==
  {Doc(FALSE, Null, Null, Null, c, d, f, r) :
     c \in {200, 500}, d \in BOOLEAN, f \in 0..3,
     r \in {Null, "[]", "[\"https://x/video.mp4\"]", "\"https://x/video.mp4\"", "oops"}}

\* JSON.parse on the strings of the model: ok = did not throw
JSONParse(str) ==
  CASE str = "[]" -> [ok |-> TRUE, isArray |-> TRUE, elems |-> <<>>]
    [] str = "[\"https://x/video.mp4\"]" -> [ok |-> TRUE, isArray |-> TRUE, elems |-> <<URL>>]
    [] str = "\"https://x/video.mp4\"" -> [ok |-> TRUE, isArray |-> FALSE, elems |-> <<>>]
    [] str = "[\"https://x/video.mp4\",\"https://x/b.mp4\"]" ->
         [ok |-> TRUE, isArray |-> TRUE, elems |-> <<URL, "https://x/b.mp4">>]
    [] str = "{}" -> [ok |-> TRUE, isArray |-> FALSE, elems |-> <<>>]
    [] OTHER -> [ok |-> FALSE, isArray |-> FALSE, elems |-> <<>>]

\* let urls = []; try { urls = JSON.parse(st.data.resultUrls || "[]"); } catch {}
ParseResultUrls(resultUrls) ==
  LET src == IF resultUrls = Null \/ resultUrls = "" THEN "[]" ELSE resultUrls
      r == JSONParse(src)
  IN  IF r.ok THEN r ELSE [ok |-> TRUE, isArray |-> TRUE, elems |-> <<>>]

\* the extraction taking the last element of the list (mutation of FirstUrl)
FirstUrl_Last(urls) ==
  IF urls.isArray /\ Len(urls.elems) > 0 THEN urls.elems[Len(urls.elems)] ELSE Null

\* const video_url = Array.isArray(done.urls) && done.urls.length ? done.urls[0] : null;
FirstUrl(urls) ==
  IF urls.isArray /\ Len(urls.elems) > 0 THEN urls.elems[1] ELSE Null

Outcome(kind, status, msg) == [kind |-> kind, status |-> status, msg |-> msg]
NoOutcome == Outcome("none", 0, "")
RenderTimeout == Outcome("error", 504, "Render timeout")
\* const e=new Error(st.error || "Render failed"); e.status=502
RenderFailed(error) ==
  Outcome("error", 502, IF error = Null \/ error = "" THEN "Render failed" ELSE error)
\* an axios error reaches the handler's catch: res.status(err.status||500)
TransportFailure == Outcome("error", 500, "transport")
Success(url) == Outcome("success", 200, url)

\* the verdict of one loop body: go on with the loop, or leave it with an outcome
GoOn == [next |-> TRUE, outcome |-> NoOutcome]
Leave(o) == [next |-> FALSE, outcome |-> o]

\* pollTask with the GET inside try{ }catch{ /* ignore */ }: a transport
\* error is one more pending poll (mutation of pollTask)
pollTask_Swallow(st) ==
  IF st.err THEN GoOn
  ELSE IF st.status = "succeeded" /\ st.video_url # Null THEN Leave(Success(st.video_url))
  ELSE IF st.status = "failed" THEN Leave(RenderFailed(st.error))
  ELSE GoOn

\* pollTask (config.js): no try/catch inside the loop
pollTask(st) ==
  IF st.err THEN Leave(TransportFailure)
  ELSE IF st.status = "succeeded" /\ st.video_url # Null THEN Leave(Success(st.video_url))
  ELSE IF st.status = "failed" THEN Leave(RenderFailed(st.error))
  ELSE GoOn

\* the body of the poll loop of generateHandler (part_001) and of pollAny
\* (config.js): try{ ...; if(failed){ throw e; } }catch{ /* ignore */ }
\* - the catch receives the transport error and the thrown failure alike
pollAny(st) ==
  IF st.err THEN GoOn
  ELSE IF st.status = "succeeded" /\ st.video_url # Null THEN Leave(Success(st.video_url))
  ELSE IF st.status = "failed" THEN GoOn
  ELSE GoOn

\* pollUntilDone (server.js) followed by lines 421-423 of generateHandler
pollUntilDone(st) ==
  IF st.err THEN Leave(TransportFailure)
  ELSE IF st.code = 200 /\ st.hasData
    THEN IF st.successFlag = 1
           THEN LET video_url == FirstUrl(ParseResultUrls(st.resultUrls))
                IN  IF video_url = Null
                      THEN Leave(Outcome("error", 502, "No video_url in result"))
                      ELSE Leave(Success(video_url))
         ELSE IF st.successFlag \in {2, 3} THEN Leave(Outcome("error", 502, "Render failed"))
         ELSE GoOn
  ELSE GoOn

PollVariants == {"pollTask", "pollUntilDone", "generateHandler", "pollAny"}

\* for(let i=0;i<120;i++) / for(let i=0;i<160;i++)
PollBudget(variant) == IF variant = "pollUntilDone" THEN 160 ELSE 120

\* paramVariants: 4 entries in generateHandler, 3 in pollAny, one fixed name elsewhere
ParamVariants(variant) ==
  CASE variant = "generateHandler" -> 4
    [] variant = "pollAny" -> 3
    [] OTHER -> 1

\* which calls go through enqueue: every GET (pollUntilDone, generateHandler),
\* the whole loop (enqueue(() => pollTask(...))), or nothing (pollAny)
SlotPerGet(variant) == variant \in {"pollUntilDone", "generateHandler"}
SlotPerLoop(variant) == variant = "pollTask"

StatusDocs(variant) == IF variant = "pollUntilDone" THEN Veo3Docs ELSE KieDocs

LoopBody(variant, st) ==
  CASE variant = "pollTask" -> pollTask(st)
    [] variant = "pollUntilDone" -> pollUntilDone(st)
    [] OTHER -> pollAny(st)

\* what the upstream said, whatever the poller makes of it
SaysSuccess(variant, st) ==
  ~st.err /\ IF variant = "pollUntilDone"
               THEN st.code = 200 /\ st.hasData /\ st.successFlag = 1
               ELSE st.status = "succeeded"
CarriesUrl(variant, st) ==
  ~st.err /\ IF variant = "pollUntilDone"
               THEN FirstUrl(ParseResultUrls(st.resultUrls)) # Null
               ELSE st.video_url # Null
SaysFailed(variant, st) ==
  ~st.err /\ IF variant = "pollUntilDone"
               THEN st.code = 200 /\ st.hasData /\ st.successFlag \in {2, 3}
               ELSE st.status = "failed"

ResponseClass(variant, st) ==
  CASE st.err -> "error"
    [] SaysSuccess(variant, st) /\ CarriesUrl(variant, st) -> "success_url"
    [] SaysSuccess(variant, st) -> "success_nourl"
    [] SaysFailed(variant, st) -> "failed"
    [] OTHER -> "pending"

\* the position after a loop body that did not leave the loop
Advance(p, budget) ==
  IF p.pv < ParamVariants(p.variant) THEN [p EXCEPT !.pv = p.pv + 1, !.polls = p.polls + 1]
  ELSE IF p.sp < p.nPaths THEN [p EXCEPT !.sp = p.sp + 1, !.pv = 1, !.polls = p.polls + 1]
  ELSE IF p.i + 1 < budget THEN [p EXCEPT !.i = p.i + 1, !.phase = "sleep"]
  ELSE [p EXCEPT !.i = p.i + 1, !.phase = "done", !.outcome = RenderTimeout]

(***************************************************************************)
(* Endpoint discovery and the generation handler of part_001.              *)
(***************************************************************************)
AllSubmitCandidates ==
  <<"/veo/generate", "/veo3/generate", "/video/generate", "/video/generations",
    "/videos/generate", "/videos/generations", "/jobs/create">>
AllStatusCandidates ==
  <<"/veo/record-info", "/veo3/record-info", "/video/status", "/videos/status",
    "/video/generations", "/videos/generations", "/job/status", "/jobs/status">>

\* the first NumSubmit / NumStatus entries of the default lists
SUBMIT_CANDIDATES == SubSeq(AllSubmitCandidates, 1, NumSubmit)
STATUS_CANDIDATES == SubSeq(AllStatusCandidates, 1, NumStatus)

Range(f) == {f[x] : x \in DOMAIN f}

\* the body of a submission response, or a transport error
SubmitDoc(err, taskId, dataTaskId, id, dataId, job_id, resultTaskId) ==
  [err |-> err, taskId |-> taskId, dataTaskId |-> dataTaskId, id |-> id,
   dataId |-> dataId, job_id |-> job_id, resultTaskId |-> resultTaskId]

PostError == SubmitDoc(TRUE, Null, Null, Null, Null, Null, Null)

PostDocs ==
  {SubmitDoc(FALSE, Null, Null, Null, Null, Null, Null),
   SubmitDoc(FALSE, Null, "abc123", Null, Null, Null, Null),
   SubmitDoc(FALSE, Null, Null, "", Null, Null, Null),
   SubmitDoc(FALSE, Null, Null, Null, Null, "abc123", Null)}

\* a || b on values that are strings or null
OrElse(a, b) == IF a # Null /\ a # "" THEN a ELSE b

\* function pickTaskId(x) of part_001
pickTaskId(x) ==
  OrElse(x.taskId, OrElse(x.dataTaskId, OrElse(x.id, OrElse(x.dataId,
    OrElse(x.job_id, OrElse(x.resultTaskId, Null))))))

Procs == 1..NumProcs

Unbound(last) == [submit_path |-> Null, status_path |-> Null, last_err |-> last]

IdleProc ==
  [kind |-> "none", phase |-> "idle", variant |-> "generateHandler",
   prompt |-> Str("a cat"), k |-> 0, found |-> Null, sp |-> 1, pv |-> 1, i |-> 0,
   nPaths |-> 1, statusPaths |-> <<>>, polls |-> 0, target |-> "none",
   outcome |-> NoOutcome, probes |-> <<>>, yields |-> <<>>]

\* a world: the invocation at work, the binding and the queue, while one
\* run of the handler transforms them
World(p, D, q) == [p |-> p, D |-> D, q |-> q]

\* the error escapes the handler: the invocation is over and nothing has
\* been sent (mutation of Respond)
Respond_Escapes(w, o) ==
  [w EXCEPT !.p = [IdleProc EXCEPT !.kind = w.p.kind, !.phase = "done"]]

\* res.status(...).json(...) / res.json(...): the invocation is over and its
\* local variables are gone; the kind of call and the response remain
Respond(w, o) ==
  [w EXCEPT !.p = [IdleProc EXCEPT !.kind = w.p.kind, !.phase = "done", !.outcome = o]]

\* for(const p of SUBMIT_CANDIDATES){ ... await enqueue(()=> kiePost(p, probeBody))
StartProbe(w, self, k) ==
  [w EXCEPT !.p.phase = "probe", !.p.k = k,
            !.p.probes = Append(w.p.probes, SUBMIT_CANDIDATES[k]),
            !.q = enqueue(w.q, self)]

\* await enqueue(()=> kieGet(sp, pv))  inside detectPaths
StartStatusProbe(w, self, sp, pv) ==
  [w EXCEPT !.p.phase = "sprobe", !.p.sp = sp, !.p.pv = pv, !.q = enqueue(w.q, self)]

\* const body = sanitize(req.body); ... const sub = await enqueue(()=> kiePost(DETECT.submit_path, payload))
Submit(w, self) ==
  IF sanitize([prompt |-> w.p.prompt, duration |-> Undefined, aspect_ratio |-> Undefined]).threw
    THEN Respond(w, Outcome("error", 400, "Prompt is required"))
    ELSE [w EXCEPT !.p.phase = "submit", !.q = enqueue(w.q, self)]

\* generateHandler without the test of DETECT.submit_path after detectPaths
\* (mutation of AfterDetect)
AfterDetect_NoRecheck(w, self) ==
  IF w.p.kind = "triage" THEN Respond(w, Outcome("triage", 200, "detected"))
  ELSE Submit(w, self)

\* detectPaths has returned to its caller:
\*   /triage:          res.json({ api:API, key_present:!!KEY, detected })
\*   generateHandler:  if(!DETECT.submit_path){ ... e.status=502; throw e; }
AfterDetect(w, self) ==
  IF w.p.kind = "triage" THEN Respond(w, Outcome("triage", 200, "detected"))
  ELSE IF w.D.submit_path = Null
    THEN Respond(w, Outcome("error", 502, "No working KIE submit path found. Open /triage first."))
  ELSE Submit(w, self)

\* if(!submit_path){ DETECT = { submit_path:null, status_path:null, last_err:last }; return DETECT; }
DetectFail(w, self, last) ==
  AfterDetect([w EXCEPT !.D = Unbound(last), !.p.probes = <<>>, !.p.yields = <<>>], self)

\* DETECT = { submit_path, status_path, last_err:null }; return DETECT;
DetectDone(w, self, status_path) ==
  AfterDetect([w EXCEPT !.D = [submit_path |-> w.p.found, status_path |-> status_path,
                               last_err |-> Null],
                        !.p.probes = <<>>, !.p.yields = <<>>, !.p.found = Null,
                        !.p.k = 0, !.p.sp = 1, !.p.pv = 1], self)

\* detectPaths that keeps probing after a candidate has yielded an id
\* (mutation of ProbeAnswered: no break)
ProbeAnswered_NoBreak(w, self, data) ==
  LET id == IF data.err THEN Null ELSE pickTaskId(data)
      w1 == [w EXCEPT !.p.yields = Append(w.p.yields, id # Null),
                      !.p.found = IF id # Null THEN SUBMIT_CANDIDATES[w.p.k] ELSE w.p.found]
  IN  IF w.p.k < NumSubmit THEN StartProbe(w1, self, w.p.k + 1)
      ELSE IF w1.p.found # Null THEN StartStatusProbe(w1, self, 1, 1)
      ELSE DetectFail(w1, self, IF data.err THEN "error" ELSE "no taskId")

\* the body of the loop over SUBMIT_CANDIDATES after the probe has settled
ProbeAnswered(w, self, data) ==
  LET id == IF data.err THEN Null ELSE pickTaskId(data)
      w1 == [w EXCEPT !.p.yields = Append(w.p.yields, id # Null)]
  IN  IF id # Null
        THEN StartStatusProbe([w1 EXCEPT !.p.found = SUBMIT_CANDIDATES[w.p.k]], self, 1, 1)
      ELSE IF w.p.k < NumSubmit THEN StartProbe(w1, self, w.p.k + 1)
      ELSE DetectFail(w1, self, IF data.err THEN "error" ELSE "no taskId")

\* detectPaths that asks again with the same path and parameter name after an
\* error, without bound (mutation of StatusProbeAnswered)
StatusProbeAnswered_Retry(w, self, threw) ==
  IF ~threw THEN DetectDone(w, self, STATUS_CANDIDATES[w.p.sp])
  ELSE StartStatusProbe(w, self, w.p.sp, w.p.pv)

\* the loops over STATUS_CANDIDATES and paramVariants after a GET has settled:
\* any response binds the path, any thrown error moves on
StatusProbeAnswered(w, self, threw) ==
  IF ~threw THEN DetectDone(w, self, STATUS_CANDIDATES[w.p.sp])
  ELSE IF w.p.pv < ParamVariants("generateHandler")
    THEN StartStatusProbe(w, self, w.p.sp, w.p.pv + 1)
  ELSE IF w.p.sp < NumStatus THEN StartStatusProbe(w, self, w.p.sp + 1, 1)
  ELSE DetectDone(w, self, Null)

\* lines 160-164 of generateHandler, after the submission has settled
SubmitAnswered(w, sub) ==
  IF sub.err THEN Respond(w, TransportFailure)
  ELSE IF pickTaskId(sub) = Null THEN Respond(w, Outcome("error", 502, "No job id from KIE"))
  ELSE LET statusPaths == IF w.D.status_path # Null THEN <<w.D.status_path>>
                          ELSE STATUS_CANDIDATES
       IN  [w EXCEPT !.p.phase = "sleep", !.p.i = 0, !.p.statusPaths = statusPaths,
                     !.p.nPaths = Len(statusPaths)]

\* kiePost(DETECT.submit_path, payload) reads DETECT when pump calls run():
\* an operation that has just been started fixes the path it posts to
Admit(pr, q, D) ==
  [x \in Procs |->
     IF x \in q.running /\ pr[x].phase = "submit" /\ pr[x].target = "none"
       THEN [pr[x] EXCEPT !.target = D.submit_path]
       ELSE pr[x]]

(***************************************************************************)
(* Initial values of each group of variables, and the groups a             *)
(* specification leaves alone.                                             *)
(***************************************************************************)
Ops == 1..MaxOps

QueueEmpty ==
  /\ active = 0
  /\ queue = <<>>
  /\ running = {}
  /\ pumps = 0

QueueIdle == MAX = 1 /\ QueueEmpty

\* a response body and its status:
\*   res.status(status).json({ success, error, job_id, video_url, enqueued, request_id })
\* The handlers of the KIE-only server.js (lines 136-159) put no request_id in
\* any body.
Reply(variant, status, success, error, job_id, video_url, enqueued) ==
  [status |-> status, success |-> success, error |-> error, job_id |-> job_id,
   video_url |-> video_url, enqueued |-> enqueued, request_id |-> variant # "generate-fast"]

NoRequest ==
  [variant |-> "none", prompt |-> Undefined, duration |-> Undefined, callback |-> FALSE,
   phase |-> "done", payload |-> Undefined, subId |-> Null, taskId |-> Null, i |-> 0,
   polls |-> 0, pending |-> 0, others |-> 0, last |-> "none",
   res |-> Reply("none", 0, FALSE, Null, Null, Null, FALSE)]

OpsIdle ==
  /\ opState = [o \in Ops |-> "new"]
  /\ nextOp = 0
  /\ req = NoRequest

Job == 1    \* the one job of the polling model, as an operation of the queue

PollIdle ==
  poll = [variant |-> "none", nPaths |-> 1, phase |-> "done", i |-> 0, sp |-> 1, pv |-> 1,
          polls |-> 0, outcome |-> NoOutcome, sawFailed |-> FALSE, sawError |-> FALSE,
          last |-> "none"]

GenIdle ==
  /\ KEY = TRUE
  /\ DETECT = Unbound(Null)
  /\ proc = [x \in Procs |-> IdleProc]
  /\ everBound = FALSE

NoCall ==
  [variant |-> "none", called |-> FALSE,
   body |-> [prompt |-> Undefined, duration |-> Undefined, aspect_ratio |-> Undefined],
   out |-> Threw(0)]

SanIdle == sanCall = NoCall

\* no client request is inside the smart proxy, callFal or the router
NoProxy ==
  [variant |-> "none", route |-> "none", base |-> FALSE, phase |-> "done",
   contacted |-> <<>>, replies |-> <<>>, attempts |-> <<>>, sent |-> <<>>]

NoFal ==
  [variant |-> "none", endpoint |-> "none", key |-> FALSE, phase |-> "done", posts |-> <<>>,
   replies |-> <<>>, out |-> [threw |-> FALSE, status |-> 0, data |-> Null]]

NoHop ==
  [ip |-> Null, xff |-> Null, key |-> Null, now |-> 0, url |-> "none",
   model |-> Null, tier |-> Null, passes |-> 0, reached |-> 0, by |-> "none",
   seen |-> <<>>, passed |-> <<>>, others |-> 0]

EdgeIdle ==
  /\ CONCURRENCY = Str(NatStr(MAX))
  /\ proxy = NoProxy
  /\ fal = NoFal
  /\ BUCKET = <<>>
  /\ clock = 0
  /\ hop = NoHop

(***************************************************************************)
(* Stand-alone queue: arbitrary callers enqueue operations, operations     *)
(* settle (resolve or reject) in any order.                                *)
(***************************************************************************)
QInit == MAX \in 1..MaxMAX /\ QueueEmpty /\ OpsIdle /\ SanIdle /\ PollIdle /\ GenIdle /\ EdgeIdle

QEnqueue ==
  /\ nextOp < MaxOps
  /\ nextOp' = nextOp + 1
  /\ SetQ(enqueue(QState, nextOp + 1))
  /\ opState' = [opState EXCEPT ![nextOp + 1] = "queued"]
  /\ UNCHANGED <<MAX, req, sanvars, pollvars, genvars, edgevars>>

\* how j.run() can end: its promise fulfils, its promise rejects, or the
\* call itself throws before returning a promise
OpOutcomes == {"returns", "rejects", "throws"}

\* pump without the try/catch around the call: j.run().then(j.resolve, j.reject)
\* - a synchronous throw settles nothing (mutation of Deliver)
Deliver_NoCatch(outcome) ==
  CASE outcome = "returns" -> "resolved"
    [] outcome = "rejects" -> "rejected"
    [] OTHER -> "queued"

\* try{ j.resolve(await j.run()); }catch(e){ j.reject(e); }
\* - the catch receives the rejection and the synchronous throw alike
Deliver(outcome) == IF outcome = "returns" THEN "resolved" ELSE "rejected"

\* the operation ends and its promise settles: j.resolve(...) or j.reject(e),
\* then finally.  (A run() that throws does so inside the pump that admitted
\* it; the model lets that pump end in a step of its own.)
QSettle(o, outcome) ==
  /\ o \in running
  /\ SetQ(release(QState, o))
  /\ opState' = [opState EXCEPT ![o] = Deliver(outcome)]
  /\ UNCHANGED <<MAX, nextOp, req, sanvars, pollvars, genvars, edgevars>>

QResolve == \E o \in Ops : QSettle(o, "returns")
QReject == \E o \in Ops : \E outcome \in {"rejects", "throws"} : QSettle(o, outcome)

QPump ==
  /\ pumps > 0
  /\ SetQ(tick(QState))
  /\ UNCHANGED <<MAX, opvars, sanvars, pollvars, genvars, edgevars>>

QNext == QEnqueue \/ QResolve \/ QReject \/ QPump

SpecQueue == QInit /\ [][QNext]_vars

Started(o) == o \in running \/ opState[o] \in {"resolved", "rejected"}

\* C11: operations are started in the order of their enqueue calls
\* (operation a is the a-th call): an operation has started only if every
\* operation enqueued before it has started; completions come in any order.
C11_FifoAdmission == \A a, b \in Ops : (a < b /\ Started(b)) => Started(a)

\* the second operation has completed before the first, the third has been
\* admitted in its place and the fourth waits
C11_Witness ==
  /\ running = {1, 3}
  /\ opState[2] \in {"resolved", "rejected"}
  /\ queue = <<4>>

\* C12: with MAX = 1 no two operations overlap, and an operation is running
\* only when every operation enqueued before it has completed.
C12_Sequential ==
  MAX = 1 =>
    /\ Cardinality(running) <= 1
    /\ \A o \in running, o2 \in Ops : o2 < o => opState[o2] \in {"resolved", "rejected"}

\* four operations were enqueued; the third runs after the first two have
\* completed and the fourth waits
C12_Witness ==
  /\ MAX = 1
  /\ nextOp = MaxOps
  /\ running = {3}
  /\ opState[1] = "resolved" /\ opState[2] = "rejected"
  /\ queue = <<4>>

\* the event loop runs every setImmediate callback, and every started
\* operation settles (its HTTP call returns or fails within its timeout)
SpecQueueLive ==
  /\ SpecQueue
  /\ WF_vars(QPump)
  /\ \A o \in Ops : WF_vars(\E outcome \in OpOutcomes : QSettle(o, outcome))

\* C13: every completion, resolved or rejected, decrements active and
\* schedules a pump; the queue is never non-empty with a free slot and no
\* pump pending; and every enqueued operation is eventually started.
C13_Progress ==
  /\ [][(\E o \in Ops : o \in running /\ o \notin running')
          => (active' = active - 1 /\ pumps' = pumps + 1)]_vars
  /\ []((Len(queue) > 0 /\ active < MAX) => pumps > 0)
  /\ \A o \in Ops : (opState[o] = "queued") ~> Started(o)

\* a rejected operation has freed the slot, the pump that will admit the
\* waiting operation is pending
C13_Witness ==
  /\ Len(queue) > 0
  /\ active < MAX
  /\ pumps > 0
  /\ \E o \in Ops : opState[o] = "rejected"

(***************************************************************************)
(* The sanitizer, applied to request bodies drawn from the values a JSON   *)
(* body can carry in the three fields the guarantees are about.            *)
(***************************************************************************)
SamplePrompts ==
  {Undefined, JNull, Str(""), Str("   "), Str("a cat"), Str(" a cat "), Num(500), Num(0), Obj}

SampleDurations ==
  {Undefined, JNull, Obj, Inf(1), Bool(TRUE), Bool(FALSE),
   Str("banana"), Str("20"), Str("7.55"), Str(""), Str(" "), Str(" 5 ")}
  \cup {Num(v) : v \in {-500, 0, 4, 5, 50, 100, 314, 315, 755, 800, 804, 805, 2000}}

SampleAspects ==
  {Undefined, JNull, Obj, Num(169), Str("16:9"), Str("9:16"), Str("1:1"), Str("4:3"),
   Str("3:4"), Str("21:9"), Str("")}

Bodies == [prompt : SamplePrompts, duration : SampleDurations, aspect_ratio : SampleAspects]

\* a request body arrives for one of the sanitizers
SanInit ==
  /\ QueueIdle /\ OpsIdle /\ PollIdle /\ GenIdle /\ EdgeIdle
  /\ \E variant \in SanVariants, b \in Bodies :
       sanCall = [variant |-> variant, called |-> FALSE, body |-> b, out |-> Threw(0)]

\* the sanitizer runs on it
SanitizeCall ==
  /\ ~sanCall.called
  /\ sanCall' = [sanCall EXCEPT !.called = TRUE,
                                !.out = ApplySanitize(sanCall.variant, sanCall.body)]
  /\ UNCHANGED <<qvars, opvars, pollvars, genvars, edgevars>>

SanNext == SanitizeCall

SpecSan == SanInit /\ [][SanNext]_vars

(***************************************************************************)
(* One job inside a polling loop.  The job id has been extracted; the loop *)
(* sleeps 3 s, then issues its status GETs; the upstream answers each GET  *)
(* with any status document or with a transport error.                     *)
(***************************************************************************)
\* const STATUS_PATHS = [...]  of config.js has three entries; generateHandler
\* polls [DETECT.status_path] or, when none is bound, all STATUS_CANDIDATES
StatusPathCounts(variant) ==
  CASE variant = "generateHandler" -> {1, NumStatus}
    [] variant = "pollAny" -> {3}
    [] OTHER -> {1}

PollInit ==
  /\ MAX = 1
  /\ OpsIdle /\ SanIdle /\ GenIdle /\ EdgeIdle
  /\ \E variant \in PollVariants :
       /\ \E n \in StatusPathCounts(variant) :
            poll = [variant |-> variant, nPaths |-> n, phase |-> "sleep", i |-> 0,
                    sp |-> 1, pv |-> 1, polls |-> 0, outcome |-> NoOutcome,
                    sawFailed |-> FALSE, sawError |-> FALSE, last |-> "none"]
       \* const done = await enqueue(() => pollTask(ep.status, taskId)) holds a slot
       /\ active = (IF SlotPerLoop(variant) THEN 1 ELSE 0)
       /\ running = (IF SlotPerLoop(variant) THEN {Job} ELSE {})
       /\ queue = <<>>
       /\ pumps = 0

\* the queue after a status GET has been handed to it (or sent directly)
IssueGet(variant, s) == IF SlotPerGet(variant) THEN enqueue(s, Job) ELSE s

\* await new Promise(r=>setTimeout(r, 3000)) is over: the first GET of the round
PollTimer ==
  /\ poll.phase = "sleep"
  /\ poll' = [poll EXCEPT !.phase = "get", !.sp = 1, !.pv = 1, !.polls = poll.polls + 1]
  /\ SetQ(IssueGet(poll.variant, QState))
  /\ UNCHANGED <<MAX, opvars, sanvars, genvars, edgevars>>

\* a status GET settles and the handler runs up to its next await
PollResponse ==
  \E st \in StatusDocs(poll.variant) \cup {TransportError} :
    /\ poll.phase = "get"
    /\ SlotPerGet(poll.variant) => (Job \in running /\ pumps < MaxPumps)
    /\ LET v == LoopBody(poll.variant, st)
           seen == [poll EXCEPT !.last = ResponseClass(poll.variant, st),
                                !.sawFailed = poll.sawFailed \/ SaysFailed(poll.variant, st),
                                !.sawError = poll.sawError \/ st.err]
           p == IF v.next THEN Advance(seen, PollBudget(poll.variant))
                ELSE [seen EXCEPT !.phase = "done", !.outcome = v.outcome]
           q1 == IF SlotPerGet(poll.variant) THEN release(QState, Job) ELSE QState
           q2 == IF p.phase = "get" THEN IssueGet(poll.variant, q1)
                 ELSE IF p.phase = "done" /\ SlotPerLoop(poll.variant) THEN release(q1, Job)
                 ELSE q1
       IN  poll' = p /\ SetQ(q2)
    /\ UNCHANGED <<MAX, opvars, sanvars, genvars, edgevars>>

PollPump ==
  /\ poll.variant # "none"
  /\ pumps > 0
  /\ SetQ(tick(QState))
  /\ UNCHANGED <<MAX, opvars, sanvars, pollvars, genvars, edgevars>>

PollNext == PollTimer \/ PollResponse \/ PollPump

SpecPoll == PollInit /\ [][PollNext]_vars

\* C2: a response that reports success without a result URL is not terminal
\* (the loop goes on, or ends only by exhausting its budget); the job
\* succeeds exactly at the first response carrying both the success status
\* and a URL.
C2_SuccessNeedsUrl ==
  /\ poll.outcome.kind = "success" => poll.last = "success_url"
  /\ poll.last = "success_url" => (poll.phase = "done" /\ poll.outcome.kind = "success")
  /\ poll.last = "success_nourl" => (poll.phase # "done" \/ poll.outcome = RenderTimeout)

\* C3: once a poll has returned an explicit failure status the loop is over
\* with the upstream-rejected error (502), and the timeout error is produced
\* only when no poll reported failure.
C3_FailureTerminal ==
  /\ poll.sawFailed => /\ poll.phase = "done"
                       /\ poll.outcome.kind = "error"
                       /\ poll.outcome.status = 502
                       /\ poll.outcome.msg \in {"Render failed", "nsfw"}
  /\ poll.outcome = RenderTimeout => ~poll.sawFailed

\* C6: when no poll yields a terminal result the loop ends with Render
\* timeout (504) after exactly the configured number of attempts, never
\* after fewer, and no attempt is made beyond that number.
C6_TimeoutAfterBudget ==
  /\ poll.i <= PollBudget(poll.variant)
  /\ poll.polls <= PollBudget(poll.variant) * poll.nPaths * ParamVariants(poll.variant)
  /\ poll.outcome = RenderTimeout => poll.i = PollBudget(poll.variant)
  /\ (poll.phase = "done" /\ poll.variant # "none"
        /\ ~poll.sawFailed /\ ~poll.sawError /\ poll.last # "success_url")
     => (poll.outcome = RenderTimeout /\ poll.i = PollBudget(poll.variant))

(***************************************************************************)
(* The server of part_001: generation requests and /triage calls arrive    *)
(* at any time, up to NumProcs invocations are in progress together; the   *)
(* upstream answers every call with any document or a transport error.     *)
(***************************************************************************)
GenInit ==
  /\ MAX \in 1..MaxMAX /\ QueueEmpty
  /\ OpsIdle /\ SanIdle /\ PollIdle /\ EdgeIdle
  /\ KEY \in BOOLEAN
  /\ DETECT = Unbound(Null)
  /\ proc = [x \in Procs |-> IdleProc]
  /\ everBound = FALSE

\* the run of the handler is over: its writes become the state
CommitAfter(w, self, reset) ==
  /\ proc' = Admit([proc EXCEPT ![self] = w.p], w.q, w.D)
  /\ DETECT' = w.D
  /\ SetQ(w.q)
  /\ everBound' = ((everBound /\ ~reset) \/ w.D.submit_path # Null)
  /\ UNCHANGED <<MAX, KEY, opvars, sanvars, pollvars, edgevars>>

Commit(w, self) == CommitAfter(w, self, FALSE)

Here(self) == World(proc[self], DETECT, QState)

\* the settled operation leaves the queue before the handler goes on
Settled(self) == World(proc[self], DETECT, release(QState, self))

Awaiting(self, phase) ==
  /\ proc[self].phase = phase
  /\ self \in running
  /\ pumps < MaxPumps

GenPrompts == {Str("a cat"), Str("   ")}

\* POST /generate-fast, /generate-quality: generateHandler up to its first await
StartGenerate(self) ==
  \E prompt \in GenPrompts :
    /\ proc[self].phase \in {"idle", "done"}
    /\ LET w == World([IdleProc EXCEPT !.kind = "gen", !.prompt = prompt], DETECT, QState)
       IN  Commit(IF ~KEY THEN Respond(w, Outcome("error", 500, "Missing KIE_KEY"))
                  ELSE IF DETECT.submit_path = Null THEN StartProbe(w, self, 1)
                  ELSE Submit(w, self), self)

\* GET /triage up to its first await
StartTriage(self) ==
  \E reset \in BOOLEAN :
    /\ proc[self].phase \in {"idle", "done"}
    /\ LET w == World([IdleProc EXCEPT !.kind = "triage"],
                      IF reset THEN Unbound(Null) ELSE DETECT, QState)
       IN  IF ~KEY
             THEN Commit(Respond(World(w.p, DETECT, QState),
                                 Outcome("error", 500, "Missing KIE_KEY")), self)
             ELSE CommitAfter(StartProbe(w, self, 1), self, reset)

\* a probe submission of detectPaths settles
ProbeResponse(self) ==
  \E data \in PostDocs \cup {PostError} :
    /\ Awaiting(self, "probe")
    /\ Commit(ProbeAnswered(Settled(self), self, data), self)

\* what a status GET of detectPaths can meet: a 2xx response, a 404, or any
\* other failure (400, 401, 429, 500, timeout); axios rejects on all but 2xx
StatusReplies == {"ok", "notfound", "error"}

\* a status probe of detectPaths settles
StatusProbeResponse(self) ==
  \E reply \in StatusReplies :
    /\ Awaiting(self, "sprobe")
    /\ Commit(StatusProbeAnswered(Settled(self), self, reply # "ok"), self)

\* the submission of the client's payload settles
SubmitResponse(self) ==
  \E sub \in PostDocs \cup {PostError} :
    /\ Awaiting(self, "submit")
    /\ Commit(SubmitAnswered(Settled(self), sub), self)

\* await new Promise(r=>setTimeout(r, 3000)) is over: the first GET of the round
GenTimer(self) ==
  /\ proc[self].phase = "sleep"
  /\ Commit([Here(self) EXCEPT !.p.phase = "get", !.p.sp = 1, !.p.pv = 1,
                               !.p.polls = proc[self].polls + 1,
                               !.q = enqueue(QState, self)], self)

\* a status GET of the poll loop settles
GenPollResponse(self) ==
  \E st \in KieDocs \cup {TransportError} :
    /\ Awaiting(self, "get")
    /\ LET w == Settled(self)
           v == pollAny(st)
           p == IF v.next THEN Advance(w.p, MaxRounds)
                ELSE [w.p EXCEPT !.phase = "done", !.outcome = v.outcome]
       IN  Commit(IF p.phase = "done" THEN Respond(w, p.outcome)
                  ELSE [w EXCEPT !.p = p,
                                 !.q = IF p.phase = "get" THEN enqueue(w.q, self) ELSE w.q], self)

\* a pump scheduled by setImmediate runs
GenPump ==
  /\ pumps > 0
  /\ proc' = Admit(proc, tick(QState), DETECT)
  /\ SetQ(tick(QState))
  /\ UNCHANGED <<MAX, KEY, DETECT, everBound, opvars, sanvars, pollvars, edgevars>>

GenNext ==
  \/ \E self \in Procs : StartGenerate(self)
  \/ \E self \in Procs : StartTriage(self)
  \/ \E self \in Procs : ProbeResponse(self)
  \/ \E self \in Procs : StatusProbeResponse(self)
  \/ \E self \in Procs : SubmitResponse(self)
  \/ \E self \in Procs : GenTimer(self)
  \/ \E self \in Procs : GenPollResponse(self)
  \/ GenPump

SpecGen == GenInit /\ [][GenNext]_vars

Spec == SpecGen

InDetect(x) == proc[x].phase \in {"probe", "sprobe"}

\* C4: discovery is single-flight: at no time are two callers inside
\* detectPaths, each issuing its own probe sequence.
C4_SingleFlight == Cardinality({x \in Procs : InDetect(x)}) <= 1

\* the probes of a detectPaths run so far follow the candidate list, and no
\* probe before the current one has yielded a job id
InListOrder(x) ==
  LET p == proc[x]
  IN  /\ p.k \in 1..NumSubmit
      /\ p.probes = SubSeq(SUBMIT_CANDIDATES, 1, p.k)
      /\ Len(p.yields) = (IF p.phase = "probe" THEN p.k - 1 ELSE p.k)
      /\ \A j \in 1..Len(p.yields) : p.yields[j] <=> (j = p.k /\ p.phase = "sprobe")
      /\ p.phase = "sprobe" => p.found = SUBMIT_CANDIDATES[p.k]
      /\ p.phase = "probe" => p.found = Null

\* C8: detectPaths probes the submit candidates strictly in list order,
\* stops at the first candidate whose response yields a job id, and binds
\* exactly that candidate as DETECT.submit_path.
C8_FirstWorkingPath ==
  /\ [](\A x \in Procs : InDetect(x) => InListOrder(x))
  /\ [][\A x \in Procs :
          (proc[x].phase = "sprobe" /\ proc'[x].phase # "sprobe")
            => DETECT'.submit_path = SUBMIT_CANDIDATES[proc[x].k]]_vars

\* only the third candidate yielded an id: candidates 1, 2, 3 were probed
C8_Witness ==
  \E x \in Procs :
    /\ proc[x].phase = "sprobe"
    /\ proc[x].k = 3
    /\ proc[x].probes = SubSeq(SUBMIT_CANDIDATES, 1, 3)
    /\ proc[x].yields = <<FALSE, FALSE, TRUE>>

\* a generation request arrives (generateHandler is entered)
Arrives(x) ==
  /\ proc[x].phase \in {"idle", "done"}
  /\ proc'[x].kind = "gen"
  /\ proc'[x] # proc[x]

\* C9: once discovery has bound a submit path, every later generation
\* request issues no probe submission, posts its payload to a bound submit
\* path and, when a status path is bound, polls only that path.
C9_BindingCached ==
  [][\A x \in Procs :
       /\ (everBound /\ Arrives(x)) => proc'[x].phase # "probe"
       /\ (everBound' /\ proc[x].target = "none" /\ proc'[x].target # "none")
            => proc'[x].target \in Range(SUBMIT_CANDIDATES)
       /\ (proc[x].phase = "submit" /\ proc'[x].phase = "sleep" /\ DETECT.status_path # Null)
            => proc'[x].statusPaths = <<DETECT.status_path>>]_vars

NoWorkingPath == "No working KIE submit path found. Open /triage first."

\* C10: when the last candidate submit path has been probed without a job
\* id, the binding is unbound and the generation request that ran the
\* discovery is answered 502 at once: it has submitted no payload and issued
\* no status poll, and it never does.
C10_DiscoveryFailure ==
  /\ [](\A x \in Procs : proc[x].phase = "probe" => (proc[x].target = "none" /\ proc[x].polls = 0))
  /\ [][\A x \in Procs :
          (proc[x].kind = "gen" /\ proc[x].phase = "probe" /\ ~InDetect(x)')
            => /\ proc[x].k = NumSubmit
               /\ DETECT'.submit_path = Null
               /\ proc'[x].phase = "done"
               /\ proc'[x].outcome = Outcome("error", 502, NoWorkingPath)]_vars

C10_Witness ==
  \E x \in Procs :
    /\ proc[x].kind = "gen"
    /\ proc[x].phase = "done"
    /\ proc[x].outcome.status = 502
    /\ proc[x].outcome.msg = NoWorkingPath
    /\ DETECT.submit_path = Null

(***************************************************************************)
(* The server of config.js (the variant that tries several KIE paths):     *)
(* handleGenerate sanitizes, trySubmit posts the payload to each of        *)
(* SUBMIT_PATHS through the queue, pollAny then polls STATUS_PATHS.        *)
(***************************************************************************)
SUBMIT_PATHS == <<"/veo3/generate", "/veo/generate", "/video/gen">>
STATUS_PATHS == <<"/veo3/record-info", "/veo/record-info", "/video/status">>

\* function pickTaskId(sub) of config.js
pickTaskId_sub(sub) ==
  OrElse(sub.dataTaskId, OrElse(sub.taskId, OrElse(sub.dataId, OrElse(sub.id,
    OrElse(sub.job_id, OrElse(sub.resultTaskId, Null))))))

\* const resp = await enqueue(()=> kiePost(p, payload))  inside trySubmit
TryPath(w, self, k) ==
  [w EXCEPT !.p.phase = "submit", !.p.k = k, !.p.target = SUBMIT_PATHS[k],
            !.q = enqueue(w.q, self)]

\* the body of the loop of trySubmit after a POST has settled, then
\* handleGenerate up to the first timer of pollAny
trySubmit(w, self, resp) ==
  IF ~resp.err /\ pickTaskId_sub(resp) # Null
    THEN [w EXCEPT !.p.phase = "sleep", !.p.i = 0, !.p.statusPaths = STATUS_PATHS,
                   !.p.nPaths = Len(STATUS_PATHS)]
  ELSE IF w.p.k < Len(SUBMIT_PATHS) THEN TryPath(w, self, w.p.k + 1)
  ELSE Respond(w, IF resp.err THEN TransportFailure
                  ELSE Outcome("error", 500, "No taskId in response"))

AnyInit ==
  /\ MAX \in 1..MaxMAX /\ QueueEmpty
  /\ OpsIdle /\ SanIdle /\ PollIdle /\ GenIdle /\ EdgeIdle

\* POST /generate-fast, /generate-quality: handleGenerate up to its first await
AnyStart(self) ==
  \E prompt \in GenPrompts :
    /\ proc[self].phase \in {"idle", "done"}
    /\ LET w == World([IdleProc EXCEPT !.kind = "gen", !.variant = "pollAny",
                                       !.prompt = prompt], DETECT, QState)
       IN  Commit(IF sanitize([prompt |-> prompt, duration |-> Undefined,
                               aspect_ratio |-> Undefined]).threw
                    THEN Respond(w, Outcome("error", 400, "Prompt is required"))
                    ELSE TryPath(w, self, 1), self)

\* a submission of trySubmit settles
AnySubmitResponse(self) ==
  \E resp \in PostDocs \cup {PostError} :
    /\ Awaiting(self, "submit")
    /\ Commit(trySubmit(Settled(self), self, resp), self)

\* await new Promise(r=>setTimeout(r,3000)) is over: pollAny calls
\* kieGet(path, pv) itself, not through enqueue
AnyTimer(self) ==
  /\ proc[self].phase = "sleep"
  /\ Commit([Here(self) EXCEPT !.p.phase = "get", !.p.sp = 1, !.p.pv = 1,
                               !.p.polls = proc[self].polls + 1], self)

\* a status GET of pollAny settles
AnyPollResponse(self) ==
  \E st \in KieDocs \cup {TransportError} :
    /\ proc[self].phase = "get"
    /\ LET w == Here(self)
           v == pollAny(st)
           p == IF v.next THEN Advance(w.p, MaxRounds)
                ELSE [w.p EXCEPT !.phase = "done", !.outcome = v.outcome]
       IN  Commit(IF p.phase = "done" THEN Respond(w, p.outcome) ELSE [w EXCEPT !.p = p], self)

\* a pump scheduled by setImmediate runs
AnyPump ==
  /\ pumps > 0
  /\ SetQ(tick(QState))
  /\ UNCHANGED <<MAX, opvars, sanvars, pollvars, genvars, edgevars>>

AnyNext ==
  \/ \E self \in Procs : AnyStart(self)
  \/ \E self \in Procs : AnySubmitResponse(self)
  \/ \E self \in Procs : AnyTimer(self)
  \/ \E self \in Procs : AnyPollResponse(self)
  \/ AnyPump

SpecAny == AnyInit /\ [][AnyNext]_vars

\* the upstream calls in flight: the operations the queue is running, and
\* the status GETs a handler has sent without the queue
Direct(x) == proc[x].phase = "get" /\ ~SlotPerGet(proc[x].variant)
InFlight == Cardinality(running) + Cardinality({x \in Procs : Direct(x)})

\* C7: at every instant the number of upstream HTTP calls in flight is at
\* most MAX: every upstream call is issued while holding a queue slot.
C7_InFlightBounded == InFlight <= MAX

\* res.status(err.status||500) in the catch of the handler around sanitize
StatusOf(out) == IF out.status = 0 THEN 500 ELSE out.status

\* C14: for every body whose prompt is missing (undefined, null) or a string
\* that is blank after trimming, sanitize throws the validation error with
\* status 400 and returns no request, and the handler answers with a 4xx.
C14_BlankPromptRejected ==
  LET prompt == sanCall.body.prompt
      blank == prompt \in {Undefined, JNull} \/ (prompt.t = "str" /\ Trim(prompt.s) = "")
  IN  (sanCall.called /\ blank) =>
        /\ sanCall.out = Threw(400)
        /\ StatusOf(sanCall.out) \in 400..499

\* a prompt of blanks only has been rejected
C14_Witness ==
  /\ sanCall.called
  /\ sanCall.body.prompt = Str("   ")
  /\ sanCall.out.threw

C20_ValidateFirst ==
  \A x \in Procs :
    (proc[x].kind = "gen" /\ PromptBlank(proc[x].prompt)) => proc[x].phase \in {"idle", "done"}

(***************************************************************************)
(* Result extraction of the Veo3 variant of server.js: one status document *)
(* goes through the body of pollUntilDone and lines 421-423 of             *)
(* generateHandler.                                                        *)
(***************************************************************************)
ExtractDocs ==
  {Doc(FALSE, Null, Null, Null, c, d, f, r) :
     c \in {200, 500}, d \in BOOLEAN, f \in 0..3,
     r \in {Null, "", "[]", "oops", "{}", "\"https://x/video.mp4\"",
            "[\"https://x/video.mp4\"]", "[\"https://x/video.mp4\",\"https://x/b.mp4\"]"}}

\* a status document arrives
ExtractInit ==
  /\ QueueIdle /\ OpsIdle /\ PollIdle /\ GenIdle /\ EdgeIdle
  /\ \E st \in ExtractDocs :
       sanCall = [variant |-> "pollUntilDone", called |-> FALSE, body |-> st, out |-> GoOn]

\* the loop body and the extraction run on it
ExtractCall ==
  /\ ~sanCall.called
  /\ sanCall' = [sanCall EXCEPT !.called = TRUE, !.out = pollUntilDone(sanCall.body)]
  /\ UNCHANGED <<qvars, opvars, pollvars, genvars, edgevars>>

SpecExtract == ExtractInit /\ [][ExtractCall]_vars

\* C19: when the document reports success and resultUrls is a string holding
\* a JSON array of URLs, the extracted URL is the first element of the
\* array; when resultUrls is absent, empty, unparsable, an empty array or a
\* parsed value that is not an array, extraction yields no URL and nothing
\* is thrown by it (the handler reports its own 'No video_url in result').
C19_ResultUrls ==
  LET st == sanCall.body
      r == st.resultUrls
  IN  (sanCall.called /\ st.code = 200 /\ st.hasData /\ st.successFlag = 1) =>
        /\ r \in {"[\"https://x/video.mp4\"]", "[\"https://x/video.mp4\",\"https://x/b.mp4\"]"}
             => sanCall.out = Leave(Success("https://x/video.mp4"))
        /\ r \in {Null, "", "[]", "oops", "{}", "\"https://x/video.mp4\""}
             => sanCall.out = Leave(Outcome("error", 502, "No video_url in result"))

\* the first of two URLs has been extracted
C19_Witness ==
  /\ sanCall.called
  /\ sanCall.body.successFlag = 1 /\ sanCall.body.code = 200 /\ sanCall.body.hasData
  /\ sanCall.body.resultUrls = "[\"https://x/video.mp4\",\"https://x/b.mp4\"]"
  /\ sanCall.out.outcome.kind = "success"

(***************************************************************************)
(* One generation request from its body to its response, in the handlers   *)
(* that submit to a fixed path and poll with one parameter name:           *)
(*   "handleGenerate"  config.js:250-273 (taskId-safe variant, queue)      *)
(*   "generate-fast"   server.js:136-159 (KIE-only variant, no queue)      *)
(*   "generate"        part_006:100-126  (unified generate, no queue)      *)
(***************************************************************************)
\* pickTaskId(submit) of config.js:219-228; sub.id || sub.job_id elsewhere
pickId(variant, sub) ==
  IF variant = "handleGenerate"
    THEN OrElse(sub.dataTaskId, OrElse(sub.taskId, OrElse(sub.id,
           OrElse(sub.job_id, OrElse(sub.resultTaskId, Null)))))
    ELSE OrElse(sub.id, OrElse(sub.job_id, Null))

\* await enqueue(() => kiePost(...)), await enqueue(() => pollTask(...)):
\* the other two handlers call kiePost and their poller directly
ViaQueue(variant) == variant = "handleGenerate"

\* the handler that polls whether or not a callback URL was supplied
\* (mutation of AfterSubmit)
AfterSubmit_AlwaysPoll(r, sub) ==
  LET v == r.variant
      id == pickId(v, sub)
      seen == [r EXCEPT !.subId = sub.dataTaskId]
  IN  IF sub.err
        THEN [r EXCEPT !.phase = "done", !.res = Reply(v, 500, FALSE, "transport", Null, Null, FALSE)]
      ELSE IF id = Null
        THEN [seen EXCEPT !.phase = "done",
                          !.res = Reply(v, 502, FALSE, "No job id from KIE", Null, Null, FALSE)]
      ELSE [seen EXCEPT !.phase = "sleep", !.taskId = id, !.i = 0]

\* the handler after the submission has settled: the job id, the
\* acknowledgment of callback mode, or the entry of the polling loop
AfterSubmit(r, sub) ==
  LET v == r.variant
      id == pickId(v, sub)
      seen == [r EXCEPT !.subId = sub.dataTaskId]
  IN  IF sub.err
        THEN [r EXCEPT !.phase = "done", !.res = Reply(v, 500, FALSE, "transport", Null, Null, FALSE)]
      ELSE IF id = Null
        THEN [seen EXCEPT !.phase = "done",
                          !.res = Reply(v, 502, FALSE, "No job id from KIE", Null, Null, FALSE)]
      ELSE IF r.callback /\ v # "generate-fast"
        THEN [seen EXCEPT !.phase = "done", !.taskId = id,
                          !.res = Reply(v, 200, TRUE, Null, id, Null, TRUE)]
      ELSE [seen EXCEPT !.phase = "sleep", !.taskId = id, !.i = 0]

HandleInit ==
  /\ MAX \in 1..MaxMAX /\ QueueEmpty
  /\ opState = [o \in Ops |-> "new"] /\ nextOp = 0
  /\ SanIdle /\ PollIdle /\ EdgeIdle
  /\ KEY \in BOOLEAN
  /\ DETECT = Unbound(Null) /\ proc = [x \in Procs |-> IdleProc] /\ everBound = FALSE
  /\ \E v \in {"handleGenerate", "generate-fast", "generate"}, prompt \in GenPrompts,
        duration \in {Undefined, Num(2000)}, callback \in BOOLEAN :
       req = [NoRequest EXCEPT !.variant = v, !.prompt = prompt, !.duration = duration,
                               !.callback = callback, !.phase = "new"]

\* the handler up to the submission: sanitize, then kiePost, which throws
\* Missing KIE_KEY before any call when the key is not set
HandleStart ==
  /\ req.phase = "new"
  /\ LET v == req.variant
         out == ApplySanitize(IF v = "handleGenerate" THEN "sanitize" ELSE "sanitizeFinite",
                              [prompt |-> req.prompt, duration |-> req.duration,
                               aspect_ratio |-> Undefined])
         q == IF ViaQueue(v) THEN enqueue(QState, Job) ELSE QState
     IN  IF out.threw
           THEN /\ req' = [req EXCEPT !.phase = "done",
                             !.res = Reply(v, StatusOf(out), FALSE, "Prompt is required", Null, Null, FALSE)]
                /\ UNCHANGED <<active, queue, running, pumps>>
         ELSE IF ~KEY
           THEN /\ req' = [req EXCEPT !.phase = "done", !.payload = out.duration,
                             !.res = Reply(v, 500, FALSE, "Missing KIE_KEY", Null, Null, FALSE)]
                /\ SetQ(IF ViaQueue(v) THEN release(q, Job) ELSE q)
         ELSE /\ req' = [req EXCEPT !.phase = "submit", !.payload = out.duration]
              /\ SetQ(q)
  /\ UNCHANGED <<MAX, opState, nextOp, sanvars, pollvars, genvars, edgevars>>

\* the submission settles
HandleSubmitResponse ==
  \E sub \in PostDocs \cup {PostError} :
    /\ req.phase = "submit"
    /\ ViaQueue(req.variant) => Job \in running
    /\ LET r == AfterSubmit(req, sub)
           q == IF ViaQueue(req.variant) THEN release(QState, Job) ELSE QState
       IN  /\ req' = r
           /\ SetQ(IF ViaQueue(req.variant) /\ r.phase = "sleep" THEN enqueue(q, Job) ELSE q)
    /\ UNCHANGED <<MAX, opState, nextOp, sanvars, pollvars, genvars, edgevars>>

\* await new Promise(r=>setTimeout(r, 3000)) is over: the status GET is sent
HandleTimer ==
  /\ req.phase = "sleep"
  /\ req' = [req EXCEPT !.phase = "get", !.polls = req.polls + 1]
  /\ UNCHANGED <<qvars, opState, nextOp, sanvars, pollvars, genvars, edgevars>>

\* the status GET settles: the body of pollTask / kiePoll / pollUntil, then
\* the response of the handler when the loop is left
HandlePollResponse ==
  \E st \in KieDocs \cup {TransportError} :
    /\ req.phase = "get"
    /\ LET v == req.variant
           verdict == pollTask(st)
           class == ResponseClass("pollTask", st)
           seen == [req EXCEPT !.last = class, !.i = req.i + 1,
                      \* pending polls before the first response of another kind
                      !.pending = IF class = "pending" /\ req.others = 0 THEN req.pending + 1
                                  ELSE IF verdict.next THEN 0 ELSE req.pending,
                      !.others = IF class = "pending" \/ req.others = 2
                                   THEN req.others ELSE req.others + 1]
           o == verdict.outcome
           r == IF verdict.next
                  THEN IF seen.i < PollBudget("pollTask") THEN [seen EXCEPT !.phase = "sleep"]
                       ELSE [seen EXCEPT !.phase = "done",
                               !.res = Reply(v, 504, FALSE, "Render timeout", Null, Null, FALSE)]
                ELSE IF o.kind = "success"
                  THEN [seen EXCEPT !.phase = "done",
                          !.res = Reply(v, 200, TRUE, Null,
                                        IF v = "generate-fast" THEN Null ELSE req.taskId,
                                        o.msg, FALSE)]
                ELSE [seen EXCEPT !.phase = "done",
                        !.res = Reply(v, o.status, FALSE, o.msg, Null, Null, FALSE)]
       IN  /\ req' = r
           /\ SetQ(IF ViaQueue(v) /\ r.phase = "done" THEN release(QState, Job) ELSE QState)
    /\ UNCHANGED <<MAX, opState, nextOp, sanvars, pollvars, genvars, edgevars>>

SpecHandle ==
  HandleInit /\ [][HandleStart \/ HandleSubmitResponse \/ HandleTimer
                     \/ HandlePollResponse \/ QPump]_vars

C18_CallbackMode ==
  (req.variant \in {"handleGenerate", "generate"} /\ req.taskId # Null) =>
    /\ req.callback =>
         /\ req.phase = "done"
         /\ req.res = Reply(req.variant, 200, TRUE, Null, req.taskId, Null, TRUE)
         /\ req.polls = 0
    /\ (~req.callback /\ req.phase = "done") =>
         /\ ~req.res.enqueued
         /\ req.polls > 0
         /\ req.last \in {"success_url", "failed", "error"} \/ req.i = PollBudget("pollTask")

\* the acknowledgment has been sent through the queued handler
C18_Witness ==
  /\ req.variant = "handleGenerate"
  /\ req.callback
  /\ req.phase = "done"
  /\ req.res.enqueued
  /\ req.res.job_id = "abc123"
  /\ req.polls = 0

\* the JSON body of the response of generateHandler (part_001):
\*   res.json({ success:true, job_id:taskId, video_url, meta:st, request_id })
\*   res.status(err.status||500).json({ success:false, error:String(...), request_id })
Body(o) ==
  IF o.kind = "success"
    THEN [success |-> TRUE, error |-> Null, video_url |-> o.msg, request_id |-> TRUE]
    ELSE [success |-> FALSE, error |-> o.msg, video_url |-> Null, request_id |-> TRUE]

\* C17: on every path of a generation request exactly one response is sent
\* - none while the handler is at work, one when it has ended, and it
\* changes only when a later request starts in its place - and every failure
\* response has an error status and a body with success=false, an error
\* message and the request id.
C17_OneStructuredResponse ==
  /\ [](\A x \in Procs :
          proc[x].kind = "gen" =>
            /\ proc[x].phase = "done" <=> proc[x].outcome # NoOutcome
            /\ (proc[x].phase = "done" /\ proc[x].outcome.kind # "success") =>
                 /\ proc[x].outcome.status \in {400, 500, 502, 504}
                 /\ ~Body(proc[x].outcome).success
                 /\ Body(proc[x].outcome).error \notin {Null, ""}
                 /\ Body(proc[x].outcome).request_id)
  /\ [][\A x \in Procs :
          (proc[x].phase = "done" /\ proc'[x] # proc[x])
            => /\ proc'[x].phase \in {"probe", "submit", "done"}
               /\ proc'[x].polls = 0]_vars

\* the request has ended with Render timeout after its polls
C17_Witness ==
  \E x \in Procs :
    /\ proc[x].kind = "gen"
    /\ proc[x].phase = "done"
    /\ proc[x].outcome = RenderTimeout

InRange(d) == d.t = "num" /\ d.n >= 100 /\ d.n <= 800

\* C5: for every body with a non-blank prompt and any value of the other
\* fields, sanitize does not throw, the duration is a number in [1,8] and
\* the aspect ratio is one of the five allowed ratios.
C5_SanitizeRange ==
  (sanCall.called /\ ~PromptBlank(sanCall.body.prompt)) =>
     /\ ~sanCall.out.threw
     /\ InRange(sanCall.out.duration)
     /\ sanCall.out.aspect_ratio \in RATIOS

(***************************************************************************)
(* The binding DETECT of part_001 under generation requests and /triage.   *)
(***************************************************************************)
\* GET /triage?reset=1 is entered: if(req.query.reset){ DETECT = {...null} }
ResetRequested ==
  \E x \in Procs :
    /\ proc[x].phase \in {"idle", "done"}
    /\ proc'[x].kind = "triage"
    /\ proc'[x].phase = "probe"
    /\ DETECT' = Unbound(Null)

\* C21: once DETECT.submit_path is non-null it keeps its value in every
\* later step, whatever generation requests and /triage calls do, except in
\* the step of a /triage call that asks for a reset; a /triage call without
\* reset neither changes nor clears the binding.
C21_WrittenOnce ==
  [][(DETECT.submit_path # Null /\ ~ResetRequested)
       => DETECT'.submit_path = DETECT.submit_path]_vars

\* C22: terminal states are absorbing: once a poll has reported failure, or
\* the loop has ended with success, failure or timeout, no further status
\* GET is issued for the job and its outcome is not replaced by another.
C22_TerminalAbsorbing ==
  [][(poll.sawFailed \/ poll.phase = "done")
       => /\ poll'.polls = poll.polls
          /\ poll'.phase = poll.phase
          /\ poll'.outcome = poll.outcome]_vars

\* C23: one slot, one upstream call: a slot taken by a generation request is
\* released when the call it wraps has completed, so that between two polls
\* (while the request sleeps) the request holds no slot and another
\* request's call can be admitted even with MAX = 1.
C23_OneCallPerSlot ==
  req.phase = "sleep" => (Job \notin running /\ active < MAX)

\* C24: detectPaths tries the status candidates in list order and, for
\* each, the four parameter names in order; the first combination whose
\* response is not a 'not found' error binds that path as DETECT.status_path
\* (the submit path being the one that yielded the id) and ends the probing;
\* a 'not found' moves on to the next combination, and after the last one the
\* status path is unbound while the submit path is bound.
C24_StatusDiscovery ==
  [][\A x \in Procs, reply \in StatusReplies :
       LET p == proc[x]
           w == StatusProbeAnswered(Settled(x), x, reply # "ok")
           last == p.sp = NumStatus /\ p.pv = ParamVariants("generateHandler")
       IN  (/\ Awaiting(x, "sprobe")
            /\ proc'[x] = Admit([proc EXCEPT ![x] = w.p], w.q, w.D)[x]
            /\ DETECT' = w.D)
             => /\ reply # "notfound" =>
                     /\ proc'[x].phase # "sprobe"
                     /\ DETECT' = [submit_path |-> p.found, last_err |-> Null,
                                   status_path |-> STATUS_CANDIDATES[p.sp]]
                /\ (reply = "notfound" /\ ~last) =>
                     /\ proc'[x].phase = "sprobe"
                     /\ <<proc'[x].sp, proc'[x].pv>> =
                          IF p.pv < ParamVariants("generateHandler")
                            THEN <<p.sp, p.pv + 1>> ELSE <<p.sp + 1, 1>>
                /\ (reply = "notfound" /\ last) =>
                     /\ proc'[x].phase # "sprobe"
                     /\ DETECT' = [submit_path |-> p.found, last_err |-> Null,
                                   status_path |-> Null]]_vars

(***************************************************************************)
(* The extractors as pure functions: the job id of a submission response   *)
(* and the result URL of a provider response.                              *)
(***************************************************************************)
\* submission responses: each known field absent, empty or holding an id
TaskDocs ==
  {SubmitDoc(FALSE, t, dt, i, di, j, rt) :
     t \in {Null, "abc123"}, dt \in {Null, "", "xyz789"}, i \in {Null, "", "abc123"},
     di \in {Null, "xyz789"}, j \in {Null, "", "abc123"}, rt \in {Null, "xyz789"}}

\* the shapes pickUrl reads, in the order of its || chain:
\*   video_url, video.url, output.video.url, output[0].url, result.video_url,
\*   result.video.url, assets.video.url, videos[0].url, and the url of the
\*   first element of media whose content_type includes "video"
UrlFields ==
  <<"video_url", "video", "output_video", "output_0", "result_video_url",
    "result_video", "assets_video", "videos_0", "media">>

\* provider responses with at most MaxFields of the shapes present; output
\* is either an array or an object, never both
UrlDocs ==
  {data \in [Range(UrlFields) -> {Null, "clip.mp4", "https://x/a.mp4", "https://x/b.mp4"}] :
     /\ Cardinality({f \in Range(UrlFields) : data[f] # Null}) <= MaxFields
     /\ data.output_video = Null \/ data.output_0 = Null}

\* function pickUrl(data) of part_004 and part_005
pickUrl(data) ==
  OrElse(data.video_url, OrElse(data.video, OrElse(data.output_video,
    OrElse(data.output_0, OrElse(data.result_video_url, OrElse(data.result_video,
      OrElse(data.assets_video, OrElse(data.videos_0, OrElse(data.media, Null)))))))))

\* function extractUrl(data) of part_008
extractUrl(data) ==
  IF data.video_url \notin {Null, ""} THEN data.video_url
  ELSE IF data.output_0 \notin {Null, ""} THEN data.output_0
  ELSE IF data.result_video_url \notin {Null, ""} THEN data.result_video_url
  ELSE Null

TaskIdVariants == {"pickTaskId", "pickTaskId_sub", "pickId"}
UrlVariants == {"pickUrl", "extractUrl"}

ApplyPick(variant, data) ==
  CASE variant = "pickTaskId" -> pickTaskId(data)
    [] variant = "pickTaskId_sub" -> pickTaskId_sub(data)
    [] variant = "pickId" -> pickId("handleGenerate", data)
    [] variant = "pickUrl" -> pickUrl(data)
    [] variant = "extractUrl" -> extractUrl(data)

\* a response arrives at one of the extractors
PickInit ==
  /\ QueueIdle /\ OpsIdle /\ PollIdle /\ GenIdle /\ EdgeIdle
  /\ \E variant \in TaskIdVariants \cup UrlVariants :
       \E data \in (IF variant \in TaskIdVariants THEN TaskDocs ELSE UrlDocs) :
         sanCall = [variant |-> variant, called |-> FALSE, body |-> data, out |-> Null]

PickCall ==
  /\ ~sanCall.called
  /\ sanCall' = [sanCall EXCEPT !.called = TRUE, !.out = ApplyPick(sanCall.variant, sanCall.body)]
  /\ UNCHANGED <<qvars, opvars, pollvars, genvars, edgevars>>

SpecPick == PickInit /\ [][PickCall]_vars

\* C25: pickTaskId returns a non-null id exactly when at least one of the
\* known fields (data.taskId, taskId, data.id, id, job_id, result.taskId)
\* holds a non-empty value, and then the value of the first such field in
\* the function's own priority order; otherwise it returns null.
C25_PickTaskId ==
  LET sub == sanCall.body
      Known == <<"dataTaskId", "taskId", "dataId", "id", "job_id", "resultTaskId">>
      order == CASE sanCall.variant = "pickTaskId" ->
                      <<"taskId", "dataTaskId", "id", "dataId", "job_id", "resultTaskId">>
                 [] sanCall.variant = "pickTaskId_sub" -> Known
                 [] OTHER -> <<"dataTaskId", "taskId", "id", "job_id", "resultTaskId">>
      Holds(f) == sub[f] \notin {Null, ""}
  IN  (sanCall.called /\ sanCall.variant \in TaskIdVariants) =>
        /\ sanCall.out # Null <=> \E i \in DOMAIN Known : Holds(Known[i])
        /\ sanCall.out # Null =>
             \E i \in DOMAIN order : /\ Holds(order[i])
                                     /\ sanCall.out = sub[order[i]]
                                     /\ \A j \in 1..(i - 1) : ~Holds(order[j])

\* C26: pickUrl / extractUrl inspects its list of field paths in order and
\* returns the value at the first path holding a syntactically valid
\* absolute URL; a value that is present but is not such a URL is skipped;
\* when no path qualifies the result is null.
C26_PickUrl ==
  LET data == sanCall.body
      paths == IF sanCall.variant = "pickUrl" THEN UrlFields
               ELSE <<"video_url", "output_0", "result_video_url">>
      Valid(v) == v \in {"https://x/a.mp4", "https://x/b.mp4"}
  IN  (sanCall.called /\ sanCall.variant \in UrlVariants) =>
        IF \E i \in DOMAIN paths : Valid(data[paths[i]])
          THEN \E i \in DOMAIN paths : /\ Valid(data[paths[i]])
                                       /\ sanCall.out = data[paths[i]]
                                       /\ \A j \in 1..(i - 1) : ~Valid(data[paths[j]])
          ELSE sanCall.out = Null

\* C27: the promise returned by enqueue(op) resolves when op succeeds and
\* rejects when op fails, a synchronous throw included; the settlement of
\* one operation leaves the promise of every other operation as it was, and
\* in both cases the slot is released (active decremented, the operation no
\* longer running, a pump scheduled for the operations that wait).
C27_Delivery ==
  [][\A o \in Ops, outcome \in OpOutcomes :
       QSettle(o, outcome)
         => /\ opState'[o] = (IF outcome = "returns" THEN "resolved" ELSE "rejected")
            /\ \A b \in Ops \ {o} : opState'[b] = opState[b]
            /\ active' = active - 1
            /\ o \notin running'
            /\ pumps' = pumps + 1]_vars

\* with MAX = 1 the first operation has failed and the second, enqueued
\* behind it, has been served and has resolved
C27_Witness ==
  /\ MAX = 1
  /\ opState[1] = "rejected"
  /\ opState[2] = "resolved"

\* C28: for a numeric duration d (a number, or a string that reads as one)
\* the sanitized duration is d rounded to one decimal and then clamped into
\* [1,8]: below 1 gives 1, above 8 gives 8; for an absent or non-numeric
\* duration (undefined, null, an object, a word) it is the default 8.
C28_DurationValue ==
  LET d == sanCall.body.duration
      n == ToNumber(d)
      numeric == d.t = "num" \/ (d.t = "str" /\ Trim(d.s) # "" /\ n.t = "num")
      tenth == ((n.n + 5) \div 10) * 10
  IN  (sanCall.called /\ ~sanCall.out.threw) =>
        /\ numeric =>
             sanCall.out.duration = Num(IF tenth < 100 THEN 100 ELSE IF tenth > 800 THEN 800 ELSE tenth)
        /\ d \in {Undefined, JNull, Obj, Str("banana")} => sanCall.out.duration = Num(800)

\* C29: every submission POST issued by generateHandler targets a path of
\* the candidate submit list, never a null path, whatever /triage calls
\* (with or without reset) and other requests do while the submission waits
\* in the queue between the test of the binding and its execution.
C29_BoundTarget ==
  \A x \in Procs :
    (proc[x].phase = "submit" /\ proc[x].target # "none")
      => proc[x].target \in Range(SUBMIT_CANDIDATES)

(***************************************************************************)
(* Termination of generation requests in part_001.  Two clients send one   *)
(* call each, at any time: the first a generation request, the second a    *)
(* /triage call (with or without reset) or, once a binding exists, another *)
(* generation request.  Every upstream call returns or fails within its    *)
(* axios timeout, and the event loop runs timers and setImmediate          *)
(* callbacks.                                                              *)
(***************************************************************************)
\* what the event loop owes the handlers: upstream calls settle, timers fire,
\* setImmediate callbacks run
GenInternal ==
  \/ \E self \in Procs : ProbeResponse(self)
  \/ \E self \in Procs : StatusProbeResponse(self)
  \/ \E self \in Procs : SubmitResponse(self)
  \/ \E self \in Procs : GenTimer(self)
  \/ \E self \in Procs : GenPollResponse(self)
  \/ GenPump

GenLiveNext ==
  \/ (proc[1].phase = "idle" /\ StartGenerate(1))
  \/ (proc[2].phase = "idle" /\ StartTriage(2))
  \/ (proc[2].phase = "idle" /\ DETECT.submit_path # Null /\ StartGenerate(2))
  \/ GenInternal

SpecGenLive == GenInit /\ [][GenLiveNext]_vars /\ WF_vars(GenInternal)

\* C30: under those assumptions every generation request that has arrived
\* eventually has sent its response (and keeps it), for MAX = 1 and more
\* and with the other client's call in progress: admission to the queue,
\* the discovery probes and the polling loops neither deadlock nor starve
\* one another.
C30_Terminates ==
  <>[](\A x \in Procs :
         proc[x].kind = "gen" => (proc[x].phase = "done" /\ proc[x].outcome # NoOutcome))

\* with MAX = 1 two generation requests were in progress together and both
\* have been answered, one of them after its polling loop ran out
C30_Witness ==
  /\ MAX = 1
  /\ \A x \in Procs : proc[x].kind = "gen" /\ proc[x].phase = "done"
  /\ \E x \in Procs : proc[x].outcome.status = 504


(***************************************************************************)
(* The concurrency setting.  MAX is computed once, when the module loads,  *)
(* from the text of the environment variable CONCURRENCY; the queue then   *)
(* runs with whatever number came out.                                     *)
(***************************************************************************)
\* the settings explored: absent, empty, zero, negative, fractional,
\* a word, and the two plain values
Settings ==
  {Undefined, Str(""), Str("0"), Str("-5"), Str("1.5"), Str("abc"), Str("1"), Str("2")}

\* const MAX = Math.max(1, Number(process.env.CONCURRENCY || 1));
ConfiguredMAX(c) == MathMax(100, ToNumber(IF Truthy(c) THEN c ELSE Num(100)))

\* active >= MAX for the integer active and the JavaScript number MAX:
\* every comparison with NaN is false
AtLeast(a, m) ==
  CASE m.t = "nan" -> FALSE
    [] m.t = "inf" -> m.n < 0
    [] OTHER -> a * 100 >= m.n

\* the least count of executing operations at which pump refuses to admit;
\* when the test is false for every count, a count that MaxOps operations
\* never reach
AdmissionLimit(m) ==
  LET refused == {a \in 0..MaxOps : AtLeast(a, m)}
  IN  IF refused = {} THEN MaxOps + 1
      ELSE CHOOSE a \in refused : \A b \in refused : a <= b

ConfigInit ==
  /\ CONCURRENCY \in Settings
  /\ MAX = AdmissionLimit(ConfiguredMAX(CONCURRENCY))
  /\ QueueEmpty /\ OpsIdle /\ SanIdle /\ PollIdle /\ GenIdle
  /\ proxy = NoProxy /\ fal = NoFal /\ BUCKET = <<>> /\ clock = 0 /\ hop = NoHop

SpecConfig == ConfigInit /\ [][QNext]_vars

\* C31: for every value of the CONCURRENCY setting MAX is a finite number
\* of at least 1, and no operation is admitted while MAX or more operations
\* are executing (so the number executing stays below MAX + 1).
C31_AdmissionBound ==
  LET m == ConfiguredMAX(CONCURRENCY)
  IN  /\ IsFinite(m)
      /\ m.n >= 100
      /\ (active - 1) * 100 < m.n


\* C32: in pollTask / kiePoll / pollUntil a status poll that fails at the
\* transport level ends the request at once with an error response,
\* whatever is left of the budget of 120 attempts, and no poll is issued
\* once the request has ended.
C32_PollTransportError ==
  [][/\ (req.phase = "get" /\ req' # req /\ req'.last = "error") =>
          /\ req'.phase = "done"
          /\ ~req'.res.success
          /\ req'.res.status >= 400
          /\ req'.polls = req.polls
     /\ req.phase = "done" => req'.polls = req.polls]_vars

\* the second poll of a request failed at the transport level after a
\* pending first one: the request has ended with an error after two polls
C32_Witness ==
  /\ req.phase = "done"
  /\ req.last = "error"
  /\ req.pending = 1
  /\ req.polls = 2
  /\ req.polls < PollBudget("pollTask")
  /\ ~req.res.success
  /\ req.res.status = 500


(***************************************************************************)
(* The smart proxy of server.cjs and part_007: one client request inside   *)
(* tryPostPaths / tryGetPaths.  proxy.contacted lists the paths a fetch    *)
(* was issued to, proxy.replies what came back from each, proxy.sent the   *)
(* responses written to the client.                                        *)
(***************************************************************************)
\* process.env.VEO_FAST_PATH || "/generate-fast", and so on: the defaults
VEO_FAST_PATH == "/generate-fast"
VEO_QUALITY_PATH == "/generate-quality"
VEO_RESULT_PATH == "/result"

ProxyVariants == {"server.cjs", "part_007"}
ProxyRoutes == {"generate-fast", "generate-quality", "result"}

\* const paths = [ ... ] of the three routes; the job of GET /result is j1
ProxyPaths(variant, route) ==
  CASE route = "generate-fast" /\ variant = "server.cjs" ->
         <<VEO_FAST_PATH, "/generate-fast", "/video/generate-fast", "/veo/generate-fast",
           "/ai/generate-fast", "/generate">>
    [] route = "generate-fast" ->
         <<"/generate", VEO_FAST_PATH, "/video/generate-fast", "/veo/generate-fast",
           "/ai/generate-fast", "/generate-fast">>
    [] route = "generate-quality" /\ variant = "server.cjs" ->
         <<VEO_QUALITY_PATH, "/generate-quality", "/video/generate-quality",
           "/veo/generate-quality", "/ai/generate-quality">>
    [] route = "generate-quality" ->
         <<"/generate", VEO_QUALITY_PATH, "/video/generate-quality",
           "/veo/generate-quality", "/ai/generate-quality", "/generate-quality">>
    [] OTHER ->
         <<VEO_RESULT_PATH \o "/j1", "/result/j1", "/video/result/j1", "/veo/result/j1",
           "/ai/result/j1">>

\* what a fetch can come back with: a response (status and body text), or a
\* rejection (network failure, abort by withTimeout)
UpstreamBodies == {"{\"id\":\"j1\"}", "\"queued\"", "Not Found", ""}
UpstreamReplies ==
  [err : {FALSE}, status : {200, 404, 500}, text : UpstreamBodies]
    \cup {[err |-> TRUE, status |-> 0, text |-> "fetch failed"]}

\* let json = null; try { json = JSON.parse(text); } catch {}
\* res.status(r.status).send(json ?? text): res.send serialises an object
\* again and writes a string as it is
SendBody(text) ==
  CASE text = "{\"id\":\"j1\"}" -> "{\"id\":\"j1\"}"
    [] text = "\"queued\"" -> "queued"
    [] OTHER -> text

\* a response written to the client
Answer(status, body, attempts) == [status |-> status, body |-> body, attempts |-> attempts]

\* apiErr(res, 502, "VEO_UPSTREAM missing. ...")
NoUpstream == Answer(502, "VEO_UPSTREAM missing", <<>>)

\* tryPostPaths / tryGetPaths up to the first fetch
ProxyEnter(p) ==
  IF ~p.base THEN [p EXCEPT !.phase = "done", !.sent = Append(p.sent, NoUpstream)]
  ELSE [p EXCEPT !.phase = "fetch",
                 !.contacted = <<ProxyPaths(p.variant, p.route)[1]>>]

\* the loop body with a catch that records nothing (mutation of ProxyAnswered)
ProxyAnswered_SilentCatch(p, r) ==
  LET paths == ProxyPaths(p.variant, p.route)
      k == Len(p.contacted)
      seen == [p EXCEPT !.replies = Append(p.replies, r),
                        !.attempts = IF r.err THEN p.attempts
                                     ELSE Append(p.attempts, [path |-> paths[k], status |-> r.status])]
  IN  IF ~r.err /\ r.status # 404
        THEN [seen EXCEPT !.phase = "done",
                          !.sent = Append(p.sent, Answer(r.status, SendBody(r.text), <<>>))]
      ELSE IF k < Len(paths)
        THEN [seen EXCEPT !.contacted = Append(p.contacted, paths[k + 1])]
      ELSE [seen EXCEPT !.phase = "done",
                        !.sent = Append(p.sent, Answer(502, "All upstream paths returned 404/failed",
                                                       seen.attempts))]

\* the loop body after the fetch of the current path has settled:
\*   attempts.push({ path:p, status:r.status });
\*   if (r.ok && (json || text)) return res.status(r.status).send(json ?? text);
\*   if (r.status !== 404)      return res.status(r.status).send(json ?? text);
\*   } catch (e) { attempts.push({ path:p, error:String(e?.message || e) }); }
\* then the next path, or after the last one
\*   return apiErr(res, 502, "All upstream paths returned 404/failed", { attempts });
ProxyAnswered(p, r) ==
  LET paths == ProxyPaths(p.variant, p.route)
      k == Len(p.contacted)
      seen == [p EXCEPT !.replies = Append(p.replies, r),
                        !.attempts = Append(p.attempts,
                                       IF r.err THEN [path |-> paths[k], error |-> r.text]
                                       ELSE [path |-> paths[k], status |-> r.status])]
  IN  IF ~r.err /\ r.status # 404
        THEN [seen EXCEPT !.phase = "done",
                          !.sent = Append(p.sent, Answer(r.status, SendBody(r.text), <<>>))]
      ELSE IF k < Len(paths)
        THEN [seen EXCEPT !.contacted = Append(p.contacted, paths[k + 1])]
      ELSE [seen EXCEPT !.phase = "done",
                        !.sent = Append(p.sent, Answer(502, "All upstream paths returned 404/failed",
                                                       seen.attempts))]

ProxyInit ==
  /\ QueueIdle /\ OpsIdle /\ SanIdle /\ PollIdle /\ GenIdle
  /\ CONCURRENCY = Str("1") /\ fal = NoFal /\ BUCKET = <<>> /\ clock = 0 /\ hop = NoHop
  /\ \E v \in ProxyVariants, route \in ProxyRoutes, base \in BOOLEAN :
       proxy = [NoProxy EXCEPT !.variant = v, !.route = route, !.base = base, !.phase = "new"]

\* the route handler runs: it builds paths and calls tryPostPaths / tryGetPaths
ProxyStart ==
  /\ proxy.phase = "new"
  /\ proxy' = ProxyEnter(proxy)
  /\ UNCHANGED <<qvars, opvars, sanvars, pollvars, genvars, CONCURRENCY, fal, BUCKET, clock, hop>>

\* the fetch of the current path settles
ProxyResponse ==
  \E r \in UpstreamReplies :
    /\ proxy.phase = "fetch"
    /\ proxy' = ProxyAnswered(proxy, r)
    /\ UNCHANGED <<qvars, opvars, sanvars, pollvars, genvars, CONCURRENCY, fal, BUCKET, clock, hop>>

SpecProxy == ProxyInit /\ [][ProxyStart \/ ProxyResponse]_vars

\* a reply that makes the proxy go on to the next path
Passes(r) == r.err \/ r.status = 404

\* C33 without the body of the forwarded response: the order of the
\* contacts, the condition of advancing, the forwarded status, one response
ProxyOrder ==
  LET paths == ProxyPaths(proxy.variant, proxy.route)
      n == Len(proxy.contacted)
  IN  /\ n <= Len(paths)
      /\ proxy.contacted = SubSeq(paths, 1, n)
      /\ \A k \in 2..n : Passes(proxy.replies[k - 1])
      /\ Len(proxy.sent) = (IF proxy.phase = "done" THEN 1 ELSE 0)
      /\ \A k \in 1..Len(proxy.replies) :
           ~Passes(proxy.replies[k]) =>
             /\ n = k
             /\ Len(proxy.sent) = 1
             /\ proxy.sent[1].status = proxy.replies[k].status

\* C33: the paths are contacted in list order, the next one only after a
\* 404 or a transport error; the first response that is not a 404 is
\* forwarded to the client with its status and its body, and no path is
\* contacted after it; the client gets exactly one response per request.
C33_FallbackOrder ==
  /\ ProxyOrder
  /\ \A k \in 1..Len(proxy.replies) :
       ~Passes(proxy.replies[k]) => proxy.sent[1].body = proxy.replies[k].text

\* C34: when every candidate path answered 404 or failed at the transport
\* level the client gets a 502 whose attempts list has one entry per
\* candidate path, in the order tried, holding the status or the error;
\* without an upstream base the client gets a 502 and no path is contacted.
C34_Exhaustion ==
  LET paths == ProxyPaths(proxy.variant, proxy.route)
      exhausted == /\ Len(proxy.replies) = Len(paths)
                   /\ \A k \in 1..Len(paths) : Passes(proxy.replies[k])
  IN  /\ (proxy.phase = "done" /\ exhausted) =>
           /\ Len(proxy.sent) = 1
           /\ proxy.sent[1].status = 502
           /\ Len(proxy.sent[1].attempts) = Len(paths)
           /\ \A k \in 1..Len(paths) :
                proxy.sent[1].attempts[k] =
                  (IF proxy.replies[k].err
                     THEN [path |-> paths[k], error |-> proxy.replies[k].text]
                     ELSE [path |-> paths[k], status |-> 404])
      /\ (proxy.phase = "done" /\ ~proxy.base) =>
           /\ proxy.sent = <<NoUpstream>>
           /\ proxy.contacted = <<>>

\* every path of POST /generate-fast was tried: some answered 404, some
\* failed, and the client has the 502 with six attempts
C34_Witness ==
  /\ proxy.route = "generate-fast"
  /\ proxy.phase = "done"
  /\ Len(proxy.contacted) = 6
  /\ proxy.replies[1].err /\ proxy.replies[2].status = 404 /\ proxy.replies[6].err
  /\ proxy.sent[1].status = 502
  /\ Len(proxy.sent[1].attempts) = 6


(***************************************************************************)
(* callFal of the fal.run backends (part_004, part_005): one call.         *)
(* fal.posts lists the body shapes POSTed so far, fal.replies how each     *)
(* POST settled, fal.out what the call returned or threw.                  *)
(***************************************************************************)
FalVariants == {"part_004", "part_005"}

\* how axios.post settles: a 2xx response with its data, a rejection that
\* carries a response (e.response.status), or one that carries none
\* (network failure, the 600 s timeout), written with status 0
FalReplies ==
  [ok : {TRUE}, status : {200}, data : {"clip-a", "clip-b"}]
    \cup [ok : {FALSE}, status : {0, 401, 422, 500}, data : {Null}]

\* err.status = e2.response?.status || e1.response?.status || 502  (500 in part_005)
FalDefault(variant) == IF variant = "part_004" THEN 502 ELSE 500

\* what a call hands to its caller
FalReturn(data) == [threw |-> FALSE, status |-> 0, data |-> data]
FalThrow(status) == [threw |-> TRUE, status |-> status, data |-> Null]

\* callFal up to its first POST: if (!FAL_KEY) throw (e.status = 500 in
\* part_004, no status in part_005), else axios.post(endpoint, { input }, cfg)
FalEnter(f) ==
  IF ~f.key
    THEN [f EXCEPT !.phase = "done",
                   !.out = FalThrow(IF f.variant = "part_004" THEN 500 ELSE 0)]
    ELSE [f EXCEPT !.phase = "post", !.posts = <<"wrapped">>]

\* a POST settles:
\*   try { const r = await axios.post(endpoint, { input }, cfg); return r.data; }
\*   catch (e1) { try { const r2 = await axios.post(endpoint, input, cfg); return r2.data; }
\*     catch (e2) { ...; err.status = e2.response?.status || e1.response?.status || 502; throw err; } }
FalSettled(f, r) ==
  LET seen == [f EXCEPT !.replies = Append(f.replies, r)]
  IN  IF r.ok THEN [seen EXCEPT !.phase = "done", !.out = FalReturn(r.data)]
      ELSE IF Len(f.posts) = 1 THEN [seen EXCEPT !.posts = Append(f.posts, "top")]
      ELSE LET e1 == f.replies[1]
               status == IF r.status # 0 THEN r.status
                         ELSE IF e1.status # 0 THEN e1.status
                         ELSE FalDefault(f.variant)
           IN  [seen EXCEPT !.phase = "done", !.out = FalThrow(status)]

FalInit ==
  /\ QueueIdle /\ OpsIdle /\ SanIdle /\ PollIdle /\ GenIdle
  /\ CONCURRENCY = Str("1") /\ proxy = NoProxy /\ BUCKET = <<>> /\ clock = 0 /\ hop = NoHop
  /\ \E v \in FalVariants, endpoint \in {"FAST_ENDPOINT", "QUALITY_ENDPOINT"}, key \in BOOLEAN :
       fal = [NoFal EXCEPT !.variant = v, !.endpoint = endpoint, !.key = key, !.phase = "new"]

\* a route handler calls callFal(endpoint, payload)
FalCall ==
  /\ fal.phase = "new"
  /\ fal' = FalEnter(fal)
  /\ UNCHANGED <<qvars, opvars, sanvars, pollvars, genvars, CONCURRENCY, proxy, BUCKET, clock, hop>>

\* the POST in flight settles
FalResponse ==
  \E r \in FalReplies :
    /\ fal.phase = "post"
    /\ fal' = FalSettled(fal, r)
    /\ UNCHANGED <<qvars, opvars, sanvars, pollvars, genvars, CONCURRENCY, proxy, BUCKET, clock, hop>>

SpecFal == FalInit /\ [][FalCall \/ FalResponse]_vars

\* C35: callFal posts the wrapped shape first and the top-level shape only
\* after the first POST failed, never more than two POSTs; it returns the
\* data of the first POST that succeeds; when both fail it throws an error
\* whose status is the second failure's HTTP status if it has one, else the
\* first's, else 502; without an API key it throws and posts nothing.
C35_TwoShapes ==
  LET n == Len(fal.replies)
  IN  /\ fal.posts \in {<<>>, <<"wrapped">>, <<"wrapped", "top">>}
      /\ Len(fal.posts) = 2 => ~fal.replies[1].ok
      /\ \A k \in 1..n : fal.replies[k].ok =>
           /\ fal.phase = "done" /\ n = k
           /\ fal.out = FalReturn(fal.replies[k].data)
      /\ (n = 2 /\ ~fal.replies[2].ok) =>
           /\ fal.phase = "done"
           /\ fal.out.threw
           /\ fal.out.status = (IF fal.replies[2].status # 0 THEN fal.replies[2].status
                                ELSE IF fal.replies[1].status # 0 THEN fal.replies[1].status
                                ELSE 502)
      /\ (fal.phase = "done" /\ ~fal.key) => (fal.out.threw /\ fal.posts = <<>>)


(***************************************************************************)
(* The router of the unified-generate variant (part_006): the rate cap     *)
(* middleware, POST /generate and the legacy routes.  A request is         *)
(* dispatched in one run: the middleware and the legacy handlers are       *)
(* synchronous.  hop is the request dispatched last; hop.seen and          *)
(* hop.passed keep, for each client address, the arrival times of its      *)
(* requests and of its requests that were not refused.                     *)
(***************************************************************************)
WINDOW == 60000    \* now - t < 60_000
LIMIT == 30        \* w2.length > 30

Clients == {"a", "b"}                  \* req.ip of the two clients
Headers == {Null, "a, 10.0.0.1", "b"}  \* req.headers["x-forwarded-for"]

\* req.headers["x-forwarded-for"]?.split(",")[0]?.trim()
XffFirst(xff) ==
  CASE xff = Null -> Null
    [] xff = "a, 10.0.0.1" -> "a"
    [] OTHER -> xff

\* const ip = req.headers["x-forwarded-for"]?.split(",")[0]?.trim() || req.ip || "local";
ClientKey(ip, xff) ==
  IF XffFirst(xff) # Null /\ XffFirst(xff) # "" THEN XffFirst(xff)
  ELSE IF ip # Null THEN ip
  ELSE "local"

\* BUCKET.get(ip) || []
Stamps(B, key) == IF key \in DOMAIN B THEN B[key] ELSE <<>>

\* w.filter(t=> now - t < 60_000)
Fresh(w, now) == SelectSeq(w, LAMBDA t : now - t < WINDOW)

\* the rate cap middleware: w2.push(now); BUCKET.set(ip, w2);
\* if (w2.length > 30) return res.status(429)...; next();
RateCap(B, key, now) ==
  LET w2 == Append(Fresh(Stamps(B, key), now), now)
  IN  [B |-> [k \in DOMAIN B \cup {key} |-> IF k = key THEN w2 ELSE B[k]],
       limited |-> Len(w2) > LIMIT]

Urls == {"/generate", "/generate-fast", "/generate-quality", "/generate-runway"}

\* req.body.model="veo"; req.body.tier="fast";  and so on
Preset(url, r) ==
  CASE url = "/generate-fast" -> [r EXCEPT !.model = "veo", !.tier = "fast"]
    [] url = "/generate-quality" -> [r EXCEPT !.model = "veo", !.tier = "quality"]
    [] url = "/generate-runway" -> [r EXCEPT !.model = "runway"]
    [] OTHER -> r

\* the router run on a request from the top of its stack: the middleware,
\* then the route whose path equals req.url.  POST /generate is the unified
\* handler; a legacy route sets its fields and calls
\* app._router.handle(req,res,()=>{}), which runs the router again on the
\* same request, req.url unchanged.
RECURSIVE Dispatch(_, _)
Dispatch(B, r) ==
  LET m == RateCap(B, r.key, r.now)
      r1 == [r EXCEPT !.passes = r.passes + 1]
  IN  IF m.limited THEN [B |-> m.B, r |-> [r1 EXCEPT !.by = "rate cap"]]
      ELSE IF r.url = "/generate"
        THEN [B |-> m.B, r |-> [r1 EXCEPT !.reached = r.reached + 1, !.by = "/generate"]]
      ELSE Dispatch(m.B, Preset(r.url, r1))

\* a request arrives from the client at address ip
Arrive(ip, xff, url, model, tier) ==
  LET key == ClientKey(ip, xff)
      plain == ip = "a" /\ xff = Null
      d == Dispatch(BUCKET, [hop EXCEPT !.ip = ip, !.xff = xff, !.key = key, !.now = clock,
                                        !.url = url, !.model = model, !.tier = tier,
                                        !.passes = 0, !.reached = 0])
      seen == Append(Fresh(hop.seen[ip], clock), clock)
      passed == IF d.r.by = "rate cap" THEN Fresh(hop.passed[ip], clock)
                ELSE Append(Fresh(hop.passed[ip], clock), clock)
  IN  /\ Len(Fresh(Stamps(BUCKET, key), clock)) < MaxStamps
      /\ plain \/ hop.others < MaxOther
      /\ BUCKET' = d.B
      /\ hop' = [d.r EXCEPT !.seen[ip] = seen, !.passed[ip] = passed,
                            !.others = IF plain THEN hop.others ELSE hop.others + 1]
      /\ UNCHANGED <<qvars, opvars, sanvars, pollvars, genvars, CONCURRENCY, proxy, fal, clock>>

RouterInit ==
  /\ QueueIdle /\ OpsIdle /\ SanIdle /\ PollIdle /\ GenIdle
  /\ CONCURRENCY = Str("1") /\ proxy = NoProxy /\ fal = NoFal
  /\ BUCKET = <<>>
  /\ clock = 0
  /\ hop = [NoHop EXCEPT !.seen = [c \in Clients |-> <<>>], !.passed = [c \in Clients |-> <<>>]]

\* Date.now() reads a later time
Tick ==
  /\ clock < MaxClock
  /\ clock' = clock + Step
  /\ UNCHANGED <<qvars, opvars, sanvars, pollvars, genvars, CONCURRENCY, proxy, fal, BUCKET, hop>>

\* requests to a route that is served directly
RateArrive == \E ip \in Clients, xff \in Headers : Arrive(ip, xff, "/generate", Null, Null)

SpecRate == RouterInit /\ [][RateArrive \/ Tick]_vars

\* requests of one client, without the header, to the four POST routes,
\* all at one reading of the clock
RouteArrive ==
  \E url \in Urls, model \in {Null, "runway"}, tier \in {Null, "quality"} :
    Arrive("a", Null, url, model, tier)

SpecRoutes == RouterInit /\ [][RouteArrive]_vars

\* C37: the request dispatched last was passed on if and only if at most 30
\* requests of its client address, itself and refused ones included,
\* arrived within the 60 seconds before it, and it was answered 429
\* otherwise; of each address at most 30 requests were passed within those
\* 60 seconds.  (The count is of the address's own requests, so requests of
\* other addresses have no part in it.)
C37_RateCap ==
  hop.url # "none" =>
    /\ (hop.by = "rate cap") <=> (Len(hop.seen[hop.ip]) > LIMIT)
    /\ hop.by # "rate cap" => hop.by = "/generate"
    /\ Len(hop.passed[hop.ip]) <= LIMIT

\* C36: a request to a legacy route reaches the /generate handler as often
\* as the same request sent to POST /generate with the route's model and
\* tier would (once, unless the rate cap refuses it), and gets the response
\* that request would get, from the same handler with the same fields.
C36_LegacyRoutes ==
  [][(hop' # hop /\ hop'.url \in Urls \ {"/generate"}) =>
       LET direct == Dispatch(BUCKET, Preset(hop'.url,
                        [hop' EXCEPT !.url = "/generate", !.passes = 0, !.reached = 0])).r
       IN  /\ hop'.reached = direct.reached
           /\ hop'.by = direct.by
           /\ hop'.model = direct.model
           /\ hop'.tier = direct.tier]_vars

=============================================================================
